---- MODULE Spec2Model ----
(***************************************************************************)
(* A model of cognito-local: the user pool service, the InitiateAuth,      *)
(* AdminDeleteUserAttributes and SignUp targets, and the collaborators     *)
(* they call.  A request is a slot r whose pc[r] walks through the         *)
(* handler's suspension points (each await is one step); the data stores   *)
(* are documents held as values.                                           *)
(***************************************************************************)
EXTENDS Integers, Sequences, FiniteSets, TLC

VARIABLES
  config,          \* pool id -> the pool's Options document (UserPool)
  users,           \* pool id -> the pool's Users document, in insertion order
  clients,         \* the shared Clients store: a set of AppClient records
  functionConfig,  \* LambdaService.config: the triggers that name a function
  now,             \* the clock's reading (no step modelled here advances it)
  nextToken,       \* tokens generated so far + 1 (token generator, uuid)
  nextSub,         \* subs generated so far + 1 (uuid)
  pc,              \* request slot -> position in its handler
  req,             \* request slot -> the request being served
  pool,            \* request slot -> id of the pool the request resolved
  user,            \* request slot -> the handler's local `user` (<<>> is null)
  tokens,          \* request slot -> the tokens generated for it (0: none)
  code,            \* request slot -> the otp code generated for it ("": none)
  vp,              \* request slot -> state of the verifyPasswordChallenge promise
  out,             \* request slot -> the response or error of the request
  calls,           \* request slot -> the collaborator calls the handler made
  issued,          \* history: refresh tokens returned in PASSWORD_VERIFIER responses
  refreshed,       \* history: the successful refresh requests, in order
  groups,          \* pool id -> the pool's Groups document, in insertion order
  nextClient,      \* client ids generated so far + 1 (newId)
  clientLog,       \* history: the ClientIds created, and those deleted
  deletedPools,    \* history: the ids of the pools DeleteUserPool deleted
  groupLog,        \* history: the latest CreateGroup per GroupName of each pool there is
  invocation,      \* the last Lambda.invoke: the function's answer and the outcome
  factory          \* the DataStoreFactory: its cache, the files and its last call

vars == <<config, users, clients, functionConfig, now, nextToken, nextSub,
          pc, req, pool, user, tokens, code, vp, out, calls, issued,
          refreshed, groups, nextClient, clientLog, deletedPools, groupLog,
          invocation, factory>>

storeVars == <<config, clients, functionConfig>>

\* the state only the pool, client and group operations and Lambda.invoke touch
adminVars == <<groups, nextClient, clientLog, deletedPools, groupLog, invocation,
               factory>>

----------------------------------------------------------------------------
(* Bounds of the model *)

MaxTokens == 2    \* tokens the token generator may issue
MaxSubs == 2      \* subs the uuid generator may issue
MaxAttrs == 3     \* attributes in a list passed to the validator
MaxClients == 2   \* app clients CreateUserPoolClient may create
MaxTemplate == 3  \* parts of a message the CustomMessage function returns
MaxNow == 1       \* the latest time the clock reaches
MaxStore == 3     \* users in the document getUserByUsername is called on
MaxInstances == 3 \* DataStore instances a factory constructs

Reqs == {1, 2}
SeqReqs == {1}

Codes == {"1111", "2222"}

----------------------------------------------------------------------------
(* Attribute lists: userPoolService.ts *)

attribute(name, value) == [Name |-> name, Value |-> value]

attributesIncludeMatch(attributeName, value, attributes) ==
  \E i \in 1..Len(attributes) :
    attributes[i].Name = attributeName /\ attributes[i].Value = value

attributesInclude(attributeName, attributes) ==
  \E i \in 1..Len(attributes) : attributes[i].Name = attributeName

\* attributesToRecord: the Value of the last attribute of each Name, by Name
attributesToRecord(attributes) ==
  [n \in {attributes[i].Name : i \in 1..Len(attributes)} |->
     LET last == CHOOSE i \in 1..Len(attributes) :
                   /\ attributes[i].Name = n
                   /\ \A j \in (i + 1)..Len(attributes) : attributes[j].Name # n
     IN attributes[last].Value]

\* the Value of the first attribute with that name, "" when there is none
\* (undefined in the source)
attributeValue(attributeName, attributes) ==
  IF attributesInclude(attributeName, attributes)
  THEN LET i == CHOOSE i \in 1..Len(attributes) :
                  /\ attributes[i].Name = attributeName
                  /\ \A j \in 1..(i - 1) : attributes[j].Name # attributeName
       IN attributes[i].Value
  ELSE ""

\* a filter that keeps the attributes named instead of the others
attributesRemove_KeepNamed(attributes, toRemove) ==
  LET keep(x) == x.Name \in toRemove
  IN SelectSeq(attributes, keep)

attributesRemove(attributes, toRemove) ==
  LET keep(x) == x.Name \notin toRemove
  IN SelectSeq(attributes, keep)

----------------------------------------------------------------------------
(* The Users document of a pool: userPoolService.ts *)

\* position of the user stored under key `username`, 0 when there is none
UserIndex(us, username) ==
  IF \E i \in 1..Len(us) : us[i].Username = username
  THEN CHOOSE i \in 1..Len(us) : us[i].Username = username
  ELSE 0

\* the first element of a sequence that passes the test, as <<x>>, else <<>>
FirstMatch(s, Test(_)) ==
  LET hits == SelectSeq(s, Test)
  IN IF Len(hits) = 0 THEN <<>> ELSE <<hits[1]>>

\* a variant that writes nothing
saveUser_Discard(us, u) == us

\* dataStore.set(["Users", user.Username], user): an existing key keeps its
\* place in the document, a new key goes last
saveUser(us, u) ==
  LET i == UserIndex(us, u.Username)
  IN IF i = 0 THEN Append(us, u) ELSE [us EXCEPT ![i] = u]

\* a variant that never finds a user
getUserByUsername_Miss(cfg, us, username) == <<>>

\* a variant that scans the document without trying the key first
getUserByUsername_ScanFirst(cfg, us, username) ==
  LET match(u) ==
        \/ u.Username = username
        \/ attributesIncludeMatch("sub", username, u.Attributes)
        \/ /\ "email" \in cfg.UsernameAttributes
           /\ attributesIncludeMatch("email", username, u.Attributes)
        \/ /\ "phone_number" \in cfg.UsernameAttributes
           /\ attributesIncludeMatch("phone_number", username, u.Attributes)
  IN FirstMatch(us, match)

getUserByUsername(cfg, us, username) ==
  LET aliasEmailEnabled == "email" \in cfg.UsernameAttributes
      aliasPhoneNumberEnabled == "phone_number" \in cfg.UsernameAttributes
      i == UserIndex(us, username)
      match(u) ==
        \/ attributesIncludeMatch("sub", username, u.Attributes)
        \/ /\ aliasEmailEnabled
           /\ attributesIncludeMatch("email", username, u.Attributes)
        \/ /\ aliasPhoneNumberEnabled
           /\ attributesIncludeMatch("phone_number", username, u.Attributes)
  IN IF i # 0 THEN <<us[i]>> ELSE FirstMatch(us, match)

getUserByRefreshToken_Any(us, refreshToken) ==
  IF Len(us) = 0 THEN <<>> ELSE <<us[1]>>

getUserByRefreshToken(us, refreshToken) ==
  LET holds(u) == \E k \in 1..Len(u.RefreshTokens) : u.RefreshTokens[k] = refreshToken
  IN FirstMatch(us, holds)

\* the record storeRefreshToken saves: the user it was handed, with the token
\* pushed onto that user's RefreshTokens
storeRefreshToken_Skip(u, refreshToken) == u

storeRefreshToken(u, refreshToken) ==
  [u EXCEPT !.RefreshTokens = Append(@, refreshToken)]

----------------------------------------------------------------------------
(* CognitoService: the registry of pools and app clients *)

PoolIds == {"p1", "p2"}

\* getUserPool: the pool's service (its config, as <<config>>), <<>> (null)
\* when the id resolves to no pool
getUserPool(cfg, userPoolId) ==
  IF userPoolId \in DOMAIN cfg THEN <<cfg[userPoolId]>> ELSE <<>>

\* getAppClient: the client stored under ClientId, <<>> when there is none
getAppClient(cl, clientId) ==
  IF \E c \in cl : c.ClientId = clientId
  THEN <<CHOOSE c \in cl : c.ClientId = clientId>>
  ELSE <<>>

\* getUserPoolForClientId: the pool of the client; <<>> stands for the
\* ResourceNotFoundError it throws when the client or its pool is unknown
getUserPoolForClientId(cfg, cl, clientId) ==
  LET c == getAppClient(cl, clientId)
  IN IF c = <<>> THEN <<>> ELSE getUserPool(cfg, c[1].UserPoolId)

\* dataStoreFactory.delete(ctx, userPool.Id), reached from deleteUserPool:
\* the pool's document is gone, and with it whatever was kept per pool
dataStoreFactoryDelete(perPool, userPoolId) ==
  [p \in (DOMAIN perPool) \ {userPoolId} |-> perPool[p]]

\* deleteAppClient: removes Clients/<ClientId> from the shared Clients store
deleteAppClient(cl, c) == cl \ {c}

\* the ids newId() generates, in the order it generates them
ClientIds == <<"n1", "n2", "n3">>

----------------------------------------------------------------------------
(* The Groups document of a pool: userPoolService.ts *)

\* position of the group stored under key `groupName`, 0 when there is none
GroupIndex(gs, groupName) ==
  IF \E i \in 1..Len(gs) : gs[i].GroupName = groupName
  THEN CHOOSE i \in 1..Len(gs) : gs[i].GroupName = groupName
  ELSE 0

\* a variant that stores every group under a key of its own
saveGroup_Append(gs, g) == Append(gs, g)

\* dataStore.set(["Groups", group.GroupName], group), lines 280-284
saveGroup(gs, g) ==
  LET i == GroupIndex(gs, g.GroupName)
  IN IF i = 0 THEN Append(gs, g) ELSE [gs EXCEPT ![i] = g]

\* Object.values of the Groups document, lines 269-278
listGroups(gs) == gs

\* Object.values of the Users document, lines 254-261
listUsers(us) == us

----------------------------------------------------------------------------
(* InitiateAuth: the decisions of initiateAuth.ts *)

\* the code's test at lines 179-183
MfaRequired_OnOnly(cfg, u) ==
  cfg.MfaConfiguration = "ON"

MfaRequired(cfg, u) ==
  \/ cfg.MfaConfiguration = "OPTIONAL" /\ Len(u.MFAOptions) > 0
  \/ cfg.MfaConfiguration = "ON"

\* userPasswordAuthFlow, lines 166-187: what the flow does with the user it
\* holds after the lookup (and migration); u is <<>> or <<user>>
PasswordFlowDecision_PasswordFirst(cfg, u, password) ==
  IF u = <<>> THEN "NotAuthorizedError"
  ELSE IF u[1].Password # password THEN "InvalidPasswordError"
  ELSE IF u[1].UserStatus = "RESET_REQUIRED" THEN "PasswordResetRequiredError"
  ELSE IF u[1].UserStatus = "FORCE_CHANGE_PASSWORD" THEN "NEW_PASSWORD_REQUIRED"
  ELSE IF MfaRequired(cfg, u[1]) THEN "verifyMfaChallenge"
  ELSE "verifyPasswordChallenge"

PasswordFlowDecision_ConfirmedOnly(cfg, u, password) ==
  IF u = <<>> THEN "NotAuthorizedError"
  ELSE IF u[1].UserStatus = "RESET_REQUIRED" THEN "PasswordResetRequiredError"
  ELSE IF u[1].UserStatus = "FORCE_CHANGE_PASSWORD" THEN "NEW_PASSWORD_REQUIRED"
  ELSE IF u[1].Password # password THEN "InvalidPasswordError"
  ELSE IF u[1].UserStatus = "UNCONFIRMED" THEN "UserNotConfirmedException"
  ELSE IF MfaRequired(cfg, u[1]) THEN "verifyMfaChallenge"
  ELSE "verifyPasswordChallenge"

PasswordFlowDecision(cfg, u, password) ==
  IF u = <<>> THEN "NotAuthorizedError"
  ELSE IF u[1].UserStatus = "RESET_REQUIRED" THEN "PasswordResetRequiredError"
  ELSE IF u[1].UserStatus = "FORCE_CHANGE_PASSWORD" THEN "NEW_PASSWORD_REQUIRED"
  ELSE IF u[1].Password # password THEN "InvalidPasswordError"
  ELSE IF MfaRequired(cfg, u[1]) THEN "verifyMfaChallenge"
  ELSE "verifyPasswordChallenge"

\* verifyMfaChallenge, lines 41-58: the synchronous checks before the code
\* is generated
smsMfaOption(u) ==
  LET isSms(x) == x.DeliveryMedium = "SMS"
  IN FirstMatch(u.MFAOptions, isSms)

MfaChallengeCheck_NoOptionsOk(u) ==
  IF smsMfaOption(u) = <<>> THEN "deliver"
  ELSE IF attributeValue(smsMfaOption(u)[1].AttributeName, u.Attributes) = ""
    THEN "UnsupportedError"
  ELSE "deliver"

MfaChallengeCheck(u) ==
  IF Len(u.MFAOptions) = 0 THEN "NotAuthorizedError"
  ELSE IF smsMfaOption(u) = <<>> THEN "UnsupportedError"
  ELSE IF attributeValue(smsMfaOption(u)[1].AttributeName, u.Attributes) = ""
    THEN "UnsupportedError"
  ELSE "deliver"

IsRefreshFlow(authFlow) ==
  authFlow = "REFRESH_TOKEN" \/ authFlow = "REFRESH_TOKEN_AUTH"

\* refreshTokenAuthFlow, lines 210-218: the parameter checks
RefreshParametersCheck_NoCheck(rq) == "ok"

RefreshParametersCheck(rq) ==
  IF ~rq.HasAuthParameters THEN "InvalidParameterError"
  ELSE IF rq.REFRESH_TOKEN = 0 THEN "InvalidParameterError"
  ELSE "ok"

\* InitiateAuth, lines 262-277, and the first lines of the flow it calls:
\* where a request goes once the client's pool has been looked up (p)
InitiateAuthDispatch(p, rq) ==
  IF p = <<>> THEN "ResourceNotFoundError"
  ELSE IF rq.AuthFlow = "USER_PASSWORD_AUTH"
    THEN IF ~rq.HasAuthParameters THEN "InvalidParameterError"
         ELSE "userPasswordAuthFlow"
  ELSE IF IsRefreshFlow(rq.AuthFlow)
    THEN IF RefreshParametersCheck(rq) # "ok" THEN RefreshParametersCheck(rq)
         ELSE "refreshTokenAuthFlow"
  ELSE "UnsupportedError"

----------------------------------------------------------------------------
(* The data the model starts from and draws its requests from *)

NewUser(username, status, password, attributes, mfaOptions, refreshTokens) ==
  [Username |-> username, UserStatus |-> status, Password |-> password,
   Attributes |-> attributes, MFAOptions |-> mfaOptions,
   RefreshTokens |-> refreshTokens, Enabled |-> TRUE,
   UserCreateDate |-> 0, UserLastModifiedDate |-> 0,
   MFACode |-> "", ConfirmationCode |-> "", AttributeVerificationCode |-> ""]

SmsOption == [DeliveryMedium |-> "SMS", AttributeName |-> "phone_number"]

\* pool p1: one user per case of the sign-in decision; alice holds token 1
\* from an earlier session
InitialUsersP1 ==
  << NewUser("alice", "CONFIRMED", "pw",
             <<attribute("sub", "s-alice"), attribute("email", "a@x")>>,
             <<>>, <<1>>),
     NewUser("mia", "CONFIRMED", "pw",
             <<attribute("sub", "s-mia"), attribute("phone_number", "+1")>>,
             <<SmsOption>>, <<>>),
     NewUser("moe", "CONFIRMED", "pw",
             <<attribute("sub", "s-moe")>>, <<SmsOption>>, <<>>),
     NewUser("rita", "RESET_REQUIRED", "pw",
             <<attribute("sub", "s-rita")>>, <<>>, <<>>),
     NewUser("fay", "FORCE_CHANGE_PASSWORD", "pw",
             <<attribute("sub", "s-fay"), attribute("email", "f@x")>>,
             <<>>, <<>>) >>

\* pool p2: carol holds token 2
InitialUsersP2 ==
  << NewUser("carol", "CONFIRMED", "pw",
             <<attribute("sub", "s-carol"), attribute("email", "c@x")>>,
             <<>>, <<2>>) >>

InitialTokens == {1, 2}
FirstNewToken == Cardinality(InitialTokens) + 1

SubNames == <<"sub-1", "sub-2", "sub-3", "sub-4">>

\* a schema attribute: its Name and whether it is Mutable
schemaAttribute(name, mutable) == [Name |-> name, Mutable |-> mutable]

\* the schema of the pools: sub is immutable, nickname is not in the schema
DefaultSchema ==
  << schemaAttribute("sub", FALSE), schemaAttribute("email", TRUE),
     schemaAttribute("email_verified", TRUE),
     schemaAttribute("phone_number", TRUE),
     schemaAttribute("phone_number_verified", TRUE) >>

\* the result of a function that returns a value or throws
Returns(value) == [error |-> "", message |-> <<>>, value |-> value]
Throws(e, message) == [error |-> e, message |-> message, value |-> <<>>]

\* schemaAttributes.find((x) => x.Name === name): <<>> or <<the first match>>
findSchemaAttribute(schemaAttributes, name) ==
  LET found == {i \in 1..Len(schemaAttributes) : schemaAttributes[i].Name = name}
  IN IF found = {} THEN <<>>
     ELSE <<schemaAttributes[CHOOSE i \in found : \A j \in found : i <= j]>>

\* userPoolService.ts, lines 392-404: the loop over the request's attributes
\* from the i-th on; <<>> when it ends without throwing
RECURSIVE SchemaCheck(_, _, _)
SchemaCheck(requestAttributes, schemaAttributes, i) ==
  IF i > Len(requestAttributes) THEN <<>>
  ELSE LET attr == requestAttributes[i]
           attrSchema == findSchemaAttribute(schemaAttributes, attr.Name)
       IN IF attrSchema = <<>>
            THEN <<Throws("InvalidParameterError",
                          <<"user.", attr.Name,
                            ": Attribute does not exist in the schema.">>)>>
          ELSE IF ~attrSchema[1].Mutable
            THEN <<Throws("InvalidParameterError",
                          <<"user.", attr.Name,
                            ": Attribute cannot be updated. (changing an immutable attribute)">>)>>
          ELSE SchemaCheck(requestAttributes, schemaAttributes, i + 1)

\* lines 406-422: the two *_verified rules; <<>> when neither throws
VerifiedCheck(requestAttributes) ==
  IF /\ attributesInclude("email_verified", requestAttributes)
     /\ ~attributesInclude("email", requestAttributes)
    THEN <<Throws("InvalidParameterError",
                  <<"Email is required to verify/un-verify an email">>)>>
  ELSE IF /\ attributesInclude("phone_number_verified", requestAttributes)
          /\ ~attributesInclude("phone_number", requestAttributes)
    THEN <<Throws("InvalidParameterError",
                  <<"Phone Number is required to verify/un-verify a phone number">>)>>
  ELSE <<>>

\* a variant that applies the *_verified rules before the schema loop
validatePermittedAttributeChanges_VerifiedFirst(requestAttributes, schemaAttributes) ==
  LET verified == VerifiedCheck(requestAttributes)
      schema == SchemaCheck(requestAttributes, schemaAttributes, 1)
  IN IF verified # <<>> THEN verified[1]
     ELSE IF schema # <<>> THEN schema[1]
     ELSE Returns(requestAttributes)

\* userPoolService.ts, lines 388-425
validatePermittedAttributeChanges(requestAttributes, schemaAttributes) ==
  LET schema == SchemaCheck(requestAttributes, schemaAttributes, 1)
      verified == VerifiedCheck(requestAttributes)
  IN IF schema # <<>> THEN schema[1]
     ELSE IF verified # <<>> THEN verified[1]
     ELSE Returns(requestAttributes)

PoolConfig(id, mfa, usernameAttributes, autoVerified) ==
  [Id |-> id, MfaConfiguration |-> mfa,
   UsernameAttributes |-> usernameAttributes,
   AutoVerifiedAttributes |-> autoVerified,
   SchemaAttributes |-> DefaultSchema]

AppClient(id, name, userPoolId, date) ==
  [ClientId |-> id, ClientName |-> name, UserPoolId |-> userPoolId,
   CreationDate |-> date, LastModifiedDate |-> date,
   AllowedOAuthFlowsUserPoolClient |-> FALSE, RefreshTokenValidity |-> 30]

\* a variant that leaves the client without its pool
createAppClient_Unscoped(cfg, id, name, date) == AppClient(id, name, "", date)

\* the client createAppClient builds, userPoolService.ts lines 159-177
createAppClient(cfg, id, name, date) == AppClient(id, name, cfg.Id, date)

\* the group CreateGroup builds; the requests carry no Precedence and no
\* RoleArn, which stay undefined
Group(groupName, description, date) ==
  [CreationDate |-> date, Description |-> description, GroupName |-> groupName,
   LastModifiedDate |-> date, Precedence |-> "", RoleArn |-> ""]

\* a group as CreateGroup and ListGroups return it
GroupResponse(g, userPoolId) ==
  [CreationDate |-> g.CreationDate, Description |-> g.Description,
   GroupName |-> g.GroupName, LastModifiedDate |-> g.LastModifiedDate,
   Precedence |-> g.Precedence, RoleArn |-> g.RoleArn,
   UserPoolId |-> userPoolId]

\* a user as ListUsers returns it, listGroups.ts lines 99-106
UserResponse(u) ==
  [Username |-> u.Username, UserCreateDate |-> u.UserCreateDate,
   UserLastModifiedDate |-> u.UserLastModifiedDate, Enabled |-> u.Enabled,
   UserStatus |-> u.UserStatus, Attributes |-> u.Attributes]

\* a response that is the stored user as it is
AdminGetUserResponse_Whole(u) == u

\* the response of AdminGetUser, part_003 lines 30-40; "" stands for
\* undefined
AdminGetUserResponse(u) ==
  [Enabled |-> u.Enabled, MFAOptions |-> u.MFAOptions,
   PreferredMfaSetting |-> "", UserAttributes |-> u.Attributes,
   UserCreateDate |-> u.UserCreateDate,
   UserLastModifiedDate |-> u.UserLastModifiedDate,
   UserMFASettingList |-> "", Username |-> u.Username,
   UserStatus |-> u.UserStatus]

\* { ...userPool.config, CreationDate: now, LastModifiedDate: now }
DescribeUserPoolResponse(cfg, date) ==
  [k \in (DOMAIN cfg) \cup {"CreationDate", "LastModifiedDate"} |->
     IF k \in {"CreationDate", "LastModifiedDate"} THEN date ELSE cfg[k]]

\* a variant that throws the error with its default message
DescribeUserPoolMessage_Default(userPoolId) == <<>>

\* `User pool ${req.UserPoolId} does not exist.`
DescribeUserPoolMessage(userPoolId) ==
  <<"User pool ", userPoolId, " does not exist.">>

Triggers == {"UserMigration", "PostAuthentication", "PreSignUp", "PostConfirmation"}

NoReq ==
  [op |-> "", ClientId |-> "", UserPoolId |-> "", AuthFlow |-> "",
   HasAuthParameters |-> FALSE, USERNAME |-> "", PASSWORD |-> "",
   REFRESH_TOKEN |-> 0, Username |-> "", Password |-> "",
   UserAttributes |-> <<>>, UserAttributeNames |-> {},
   GroupName |-> "", Description |-> "", ClientName |-> "",
   ClientMetadata |-> ""]

\* a response; message is an error's message as the sequence of its parts
\* (<<>>: the error's default message); UserPool, UserPoolClient and Group
\* are <<>> or <<x>>
NoOut ==
  [error |-> "", message |-> <<>>, ChallengeName |-> "", USER_ID_FOR_SRP |-> "",
   AccessToken |-> 0, IdToken |-> 0, RefreshToken |-> 0,
   UserConfirmed |-> FALSE, UserSub |-> "",
   Attributes |-> <<>>, UserPool |-> <<>>, UserPoolClient |-> <<>>,
   Group |-> <<>>, Groups |-> <<>>, Users |-> <<>>, MfaConfiguration |-> "",
   userAttributes |-> <<>>, User |-> <<>>]

\* the calls a request has made: counters, the codes handed to deliver, what
\* PreSignUp answered and the event PostConfirmation was called with
NoCalls ==
  [saveUser |-> 0, deliver |-> <<>>, generate |-> 0, postAuthentication |-> 0,
   userMigration |-> 0, preSignUp |-> 0, postConfirmation |-> 0,
   preSignUpAnswer |-> <<>>, postConfirmationEvent |-> <<>>,
   userMigrationEvent |-> <<>>]

PasswordRequests ==
  { [NoReq EXCEPT !.op = "InitiateAuth", !.ClientId = c,
       !.AuthFlow = "USER_PASSWORD_AUTH", !.HasAuthParameters = h,
       !.USERNAME = n, !.PASSWORD = w, !.ClientMetadata = m] :
      c \in {"c1", "cX"}, h \in BOOLEAN,
      n \in {"alice", "a@x", "mia", "moe", "rita", "fay", "dave", "s-mia"},
      w \in {"pw", "bad"}, m \in {"", "meta"} }

RefreshRequests ==
  { [NoReq EXCEPT !.op = "InitiateAuth", !.ClientId = c, !.AuthFlow = f,
       !.HasAuthParameters = h, !.REFRESH_TOKEN = t] :
      c \in {"c1", "c2", "cX"}, f \in {"REFRESH_TOKEN", "REFRESH_TOKEN_AUTH"},
      h \in BOOLEAN, t \in 0..(FirstNewToken + 1) }

OtherFlowRequests ==
  { [NoReq EXCEPT !.op = "InitiateAuth", !.ClientId = c, !.AuthFlow = f,
       !.HasAuthParameters = TRUE, !.USERNAME = "alice", !.PASSWORD = "pw"] :
      c \in {"c1", "cX"}, f \in {"CUSTOM_AUTH", "USER_SRP_AUTH"} }

\* a request without AuthParameters carries none of them; ClientMetadata is
\* sent with the sign-ins of alice and dave to client c1 only
InitiateAuthRequests ==
  { rq \in PasswordRequests \cup RefreshRequests \cup OtherFlowRequests :
      /\ ~rq.HasAuthParameters =>
           rq.USERNAME = "alice" /\ rq.PASSWORD = "pw" /\ rq.REFRESH_TOKEN = 0
      /\ rq.ClientMetadata # "" =>
           /\ rq.HasAuthParameters /\ rq.ClientId = "c1"
           /\ rq.USERNAME \in {"alice", "dave"} }

\* the sign-ins used where other operations or other requests run as well
SignInRequests ==
  { rq \in InitiateAuthRequests :
      /\ rq.ClientId = "c1" /\ rq.HasAuthParameters /\ rq.ClientMetadata = ""
      /\ \/ /\ rq.AuthFlow = "USER_PASSWORD_AUTH"
            /\ rq.USERNAME \in {"alice", "mia", "dave"} /\ rq.PASSWORD = "pw"
         \/ rq.AuthFlow = "REFRESH_TOKEN" /\ rq.REFRESH_TOKEN = 1 }

\* the password sign-ins used next to SignUp and AdminDeleteUserAttributes
PasswordSignInRequests ==
  { rq \in SignInRequests :
      rq.AuthFlow = "USER_PASSWORD_AUTH" /\ rq.USERNAME \in {"alice", "dave"} }

AdminDeleteUserAttributesRequests ==
  { [NoReq EXCEPT !.op = "AdminDeleteUserAttributes", !.UserPoolId = p,
       !.Username = n, !.UserAttributeNames = a] :
      p \in {"p1", "p0"}, n \in {"alice", "nobody"},
      a \in {{"sub"}, {"email"}, {"email", "sub"}, {"nickname"}} }

SignUpRequests ==
  { [NoReq EXCEPT !.op = "SignUp", !.ClientId = c, !.Username = n,
       !.Password = "pw", !.UserAttributes = a] :
      c \in {"c1", "cX"}, n \in {"dave", "alice"},
      a \in {<<>>, <<attribute("email", "d@x")>>, <<attribute("email", "a@x")>>} }

\* the schemas the validator is given: the default one, one in which email
\* is unknown and phone_number immutable, and the empty one
Schemas ==
  { DefaultSchema,
    << schemaAttribute("sub", FALSE), schemaAttribute("email_verified", TRUE),
       schemaAttribute("phone_number", FALSE),
       schemaAttribute("phone_number_verified", TRUE) >>,
    << >> }

ValidatedNames ==
  {"email", "email_verified", "phone_number", "phone_number_verified",
   "sub", "nickname"}

\* the attribute lists of at most MaxAttrs attributes, repetitions included
AttributeLists ==
  UNION { [1..n -> {attribute(name, "v") : name \in ValidatedNames}] :
            n \in 0..MaxAttrs }

ValidateRequests ==
  { [NoReq EXCEPT !.op = "validatePermittedAttributeChanges",
       !.UserPoolId = "p1", !.UserAttributes = a] : a \in AttributeLists }

\* the requests of an operation that takes a UserPoolId; p0 is no pool
PoolRequests(op, userPoolIds) ==
  { [NoReq EXCEPT !.op = op, !.UserPoolId = p] : p \in userPoolIds }

\* g1 is created with either description, in either pool
CreateGroupRequests ==
  { [rq EXCEPT !.GroupName = "g1", !.Description = d] :
      rq \in PoolRequests("CreateGroup", {"p1", "p0"}), d \in {"a", "b"} }
  \cup { [rq EXCEPT !.GroupName = g, !.Description = "a"] :
           rq \in PoolRequests("CreateGroup", {"p1"}), g \in {"g2"} }
  \cup { [rq EXCEPT !.GroupName = g, !.Description = "a"] :
           rq \in PoolRequests("CreateGroup", {"p2"}), g \in {"g1"} }

CreateUserPoolClientRequests ==
  { [rq EXCEPT !.ClientName = "app"] :
      rq \in PoolRequests("CreateUserPoolClient", {"p1", "p2", "p0"}) }

DeleteUserPoolClientRequests ==
  { [NoReq EXCEPT !.op = "DeleteUserPoolClient", !.ClientId = c] :
      c \in {"c1", "cX"} \cup {ClientIds[i] : i \in 1..Len(ClientIds)} }

\* the two ListGroups targets of listGroups.ts, named by what they import
ListGroupsCopies == {"Target", "Router"}

----------------------------------------------------------------------------
(* Lambda.invoke: part_001 *)

\* the payload texts a function answers with; "" is an answer without Payload
Payloads ==
  {"", "oops", "null", "5", "{}", "{\"response\":\"r1\"}",
   "{\"other\":1,\"response\":\"r2\"}"}

\* a parsed JSON value: its kind and, for an object, its response member
JSONValue(kind, response) == [kind |-> kind, response |-> response]

\* JSON.parse(result.Payload as string) on the texts of Payloads: <<>> when
\* it throws a SyntaxError (an undefined Payload is parsed as the text
\* undefined), else <<the value>>
JSONParse(text) ==
  CASE text = "null" -> <<JSONValue("null", <<>>)>>
    [] text = "5" -> <<JSONValue("number", <<>>)>>
    [] text = "{}" -> <<JSONValue("object", <<>>)>>
    [] text = "{\"response\":\"r1\"}" -> <<JSONValue("object", <<"r1">>)>>
    [] text = "{\"other\":1,\"response\":\"r2\"}" -> <<JSONValue("object", <<"r2">>)>>
    [] OTHER -> <<>>

\* a variant that returns the whole payload
ResponseOf_Payload(parsedPayload) ==
  Returns(<<parsedPayload.kind>>)

\* parsedPayload.response: a TypeError on null, undefined (<<>>) on a value
\* without the member
ResponseOf(parsedPayload) ==
  IF parsedPayload.kind = "null" THEN Throws("TypeError", <<>>)
  ELSE Returns(parsedPayload.response)

\* what lambdaClient.invoke(...).promise() may end with: a rejection, or a
\* result with StatusCode (0: none), FunctionError ("": none) and Payload
Answers ==
  { [rejected |-> TRUE, StatusCode |-> 0, FunctionError |-> "", Payload |-> ""] }
  \cup
  { [rejected |-> FALSE, StatusCode |-> c, FunctionError |-> e, Payload |-> t] :
      c \in {200, 500, 0}, e \in {"", "Unhandled"}, t \in Payloads }

\* LambdaService.invoke, lines 194-249: what it returns or throws for a
\* trigger, given the functions configured and the answer of the invocation
invoke(configured, trigger, answer) ==
  IF trigger \notin configured
    THEN Throws("Error", <<trigger, " trigger not configured">>)
  ELSE IF answer.rejected
    THEN Throws("UnexpectedLambdaExceptionError", <<>>)
  ELSE IF answer.StatusCode = 200
    THEN LET parsedPayload == JSONParse(answer.Payload)
         IN IF parsedPayload = <<>>
              THEN Throws("InvalidLambdaResponseError", <<>>)
            ELSE IF ResponseOf(parsedPayload[1]).error # ""
              THEN Throws("InvalidLambdaResponseError", <<>>)
            ELSE ResponseOf(parsedPayload[1])
  ELSE Throws("UserLambdaValidationError",
              IF answer.FunctionError = "" THEN <<>>
              ELSE <<answer.FunctionError>>)

\* LambdaService.enabled, lines 190-192
enabled(configured, lambda) == lambda \in configured

\* the trigger sources createLambdaEvent has a case for, one of each event,
\* and one it has none for
SupportedSources ==
  {"PostAuthentication_Authentication", "PostConfirmation_ConfirmSignUp",
   "PreSignUp_SignUp", "UserMigration_Authentication", "CustomMessage_SignUp"}

TriggerSources == SupportedSources \cup {"Unknown_Source"}

\* createLambdaEvent, lines 251-405: the event of a supported source, else
\* an Error
createLambdaEvent(triggerSource) ==
  IF triggerSource \in SupportedSources
    THEN Returns(<<triggerSource>>)
    ELSE Throws("Error", <<"Unsupported Trigger Source">>)

\* a service that invokes the function again when the invocation is rejected
invocations_Retry(configured, trigger, triggerSource, answer) ==
  IF trigger \notin configured THEN 0
  ELSE IF createLambdaEvent(triggerSource).error # "" THEN 0
  ELSE IF answer.rejected THEN 2
  ELSE 1

\* LambdaService.invoke, lines 194-231: how many times it calls
\* lambdaClient.invoke; the name is looked up and the event built before the
\* one call, and the catch of lines 229-231 throws
invocations(configured, trigger, triggerSource, answer) ==
  IF trigger \notin configured THEN 0
  ELSE IF createLambdaEvent(triggerSource).error # "" THEN 0
  ELSE 1

\* LambdaService.invoke, lines 194-249, with the building of the event: what
\* it returns or throws
invokeEvent(configured, trigger, triggerSource, answer) ==
  IF trigger \notin configured THEN invoke(configured, trigger, answer)
  ELSE IF createLambdaEvent(triggerSource).error # ""
    THEN createLambdaEvent(triggerSource)
  ELSE invoke(configured, trigger, answer)

----------------------------------------------------------------------------
(* The CustomMessage trigger *)

\* the placeholders the trigger hands to the function and replaces in what
\* the function returns
CodeParameter == "{####}"
UsernameParameter == "{username}"

\* a message is the sequence of its parts, a placeholder being a part of its
\* own; <<>> is a message the function did not return
TemplateParts == {"hi ", CodeParameter, UsernameParameter}

Templates == UNION { [1..n -> TemplateParts] : n \in 1..MaxTemplate }

\* the message with every occurrence of the placeholder replaced
replaceAll(message, placeholder, value) ==
  [i \in 1..Len(message) |->
     IF message[i] = placeholder THEN value ELSE message[i]]

\* a variant that replaces the first occurrence only
interpolate_First(message, codeValue, username) ==
  LET first(m, ph) == {i \in 1..Len(m) : m[i] = ph /\ \A j \in 1..(i - 1) : m[j] # ph}
      once(m, ph, v) == [i \in 1..Len(m) |-> IF i \in first(m, ph) THEN v ELSE m[i]]
  IN once(once(message, CodeParameter, codeValue), UsernameParameter, username)

\* the code is put in first, the username second
interpolate(message, codeValue, username) ==
  replaceAll(replaceAll(message, CodeParameter, codeValue),
             UsernameParameter, username)

\* what the function configured for CustomMessage returns
CustomMessageResponses ==
  { [smsMessage |-> s, emailMessage |-> e, emailSubject |-> j] :
      s \in Templates \cup {<<>>},
      e \in {<<>>, <<CodeParameter>>,
             <<UsernameParameter, CodeParameter, CodeParameter>>},
      j \in {<<"subject">>, <<"your ", CodeParameter>>} }

\* the events the trigger is called with
CustomMessageEvents ==
  { [source |-> "CustomMessage_ForgotPassword", code |-> c, username |-> n] :
      c \in Codes, n \in {"alice", "a@x"} }

\* the CustomMessage trigger: null (<<>>) when lambda.invoke throws, else the
\* messages interpolated and the subject as returned
customMessage(event, answer) ==
  IF answer.error # "" THEN <<>>
  ELSE << [smsMessage |->
             interpolate(answer.value.smsMessage, event.code, event.username),
           emailMessage |->
             interpolate(answer.value.emailMessage, event.code, event.username),
           emailSubject |-> answer.value.emailSubject] >>

----------------------------------------------------------------------------
(* The state machine *)

Upd(f, r, v) == [f EXCEPT ![r] = v]

Failed(e) == [NoOut EXCEPT !.error = e]

\* the request is over: its response or error is being returned
Done(r, o) ==
  /\ pc' = Upd(pc, r, "done")
  /\ out' = Upd(out, r, o)

InFlight == {q \in Reqs : pc[q] # "idle"}

\* the token generator is bounded: a request starts only while a token is
\* left for every request in flight
StartAllowed ==
  (nextToken - FirstNewToken) + Cardinality(InFlight) < MaxTokens

(* The cache of DataStore instances and the factories *)

\* the two caches a factory is built with
CacheKinds == {"InMemoryCache", "NoOpCache"}

\* InMemoryCache.get: this.cache[key], <<>> when the key is absent
InMemoryCache_get(cache, key) == cache[key]

\* InMemoryCache.set: this.cache[key] = value
InMemoryCache_set(cache, key, value) == [cache EXCEPT ![key] = <<value>>]

\* a cache whose unset leaves the entry
InMemoryCache_unset_Keep(cache, key) == cache

\* InMemoryCache.unset: delete this.cache[key]
InMemoryCache_unset(cache, key) == [cache EXCEPT ![key] = <<>>]

\* NoOpCache: get is null, set and unset do nothing
NoOpCache_get(cache, key) == <<>>

NoOpCache_set(cache, key, value) == cache

NoOpCache_unset(cache, key) == cache

\* the DataStoreCache a factory holds, by its kind
Cache_get(f, key) ==
  IF f.kind = "InMemoryCache" THEN InMemoryCache_get(f.cache, key)
                              ELSE NoOpCache_get(f.cache, key)

Cache_set(f, key, value) ==
  [f EXCEPT !.cache = IF f.kind = "InMemoryCache"
                        THEN InMemoryCache_set(f.cache, key, value)
                        ELSE NoOpCache_set(f.cache, key, value),
            !.written[key] = <<value>>]

Cache_unset(f, key) ==
  [f EXCEPT !.cache = IF f.kind = "InMemoryCache"
                        THEN InMemoryCache_unset(f.cache, key)
                        ELSE NoOpCache_unset(f.cache, key),
            !.written[key] = <<>>]

\* a factory after construction: nothing cached, the files of earlier runs.
\* written (the value of the last set of each key, <<>> after an unset or
\* before any set) is history, as are live (the instances handed out for an
\* id since it was last deleted) and deleted (the ids deleted and not
\* created since)
NewFactory(kind, files) ==
  [kind |-> kind,
   cache |-> [id \in PoolIds |-> <<>>],
   files |-> files,
   instances |-> 0,
   written |-> [id \in PoolIds |-> <<>>],
   live |-> [id \in PoolIds |-> {}],
   deleted |-> {},
   call |-> <<>>]

\* a new DataStore over the file of id, kept in the cache
OpenDataStore(f, id) ==
  LET n == f.instances + 1
  IN  [factory |-> Cache_set([f EXCEPT !.instances = n,
                                       !.files = @ \cup {id}], id, n),
       value |-> <<n>>]

\* DataStoreFactory.create: the cached instance, or a new one over the file,
\* which is created when there is none
DataStoreFactory_create(f, id) ==
  IF Cache_get(f, id) # <<>>
    THEN [factory |-> f, value |-> Cache_get(f, id)]
    ELSE OpenDataStore(f, id)

\* DataStoreFactory.get: the cached instance, null when no file exists, or a
\* new instance over the file
DataStoreFactory_get(f, id) ==
  IF Cache_get(f, id) # <<>>
    THEN [factory |-> f, value |-> Cache_get(f, id)]
    ELSE IF id \notin f.files
           THEN [factory |-> f, value |-> <<>>]
           ELSE OpenDataStore(f, id)

\* DataStoreFactory.delete: removes file and cache entry
DataStoreFactory_delete(f, id) ==
  [factory |-> Cache_unset([f EXCEPT !.files = @ \ {id}], id),
   value |-> TRUE]

\* UserPoolServiceFactoryImpl.create: a service over the created store
UserPoolServiceFactory_create(f, id) == DataStoreFactory_create(f, id)

\* UserPoolServiceFactoryImpl.get: null when the factory has no store, else a
\* service over the store (<<n>>: the service of instance n)
UserPoolServiceFactory_get(f, id) ==
  LET got == DataStoreFactory_get(f, id)
  IN  IF got.value = <<>>
        THEN [factory |-> got.factory, value |-> <<>>]
        ELSE got

\* UserPoolServiceFactoryImpl.delete: false when the factory has no store,
\* else what the factory's delete returns
UserPoolServiceFactory_delete(f, id) ==
  LET got == DataStoreFactory_get(f, id)
  IN  IF got.value = <<>>
        THEN [factory |-> got.factory, value |-> FALSE]
        ELSE DataStoreFactory_delete(got.factory, id)

LambdaErrors == {"UserLambdaValidationError", "UnexpectedLambdaExceptionError"}

\* the pool configurations a deployment may start with
Deployments ==
  { [p \in PoolIds |->
       IF p = "p1" THEN PoolConfig("p1", mfa, {"email"}, ava)
                   ELSE PoolConfig("p2", "OFF", {}, {})] :
      mfa \in {"OFF", "OPTIONAL", "ON"}, ava \in {{}, {"email"}} }

\* the state after construction, given the pool configurations, the Users
\* documents and the factories a deployment may start with
InitCached(configs, documents, factories) ==
  /\ factory \in factories
  /\ config \in configs
  /\ users \in documents
  /\ clients = {AppClient("c1", "app1", "p1", 0), AppClient("c2", "app2", "p2", 0)}
  /\ functionConfig \in SUBSET Triggers
  /\ now = 0
  /\ nextToken = FirstNewToken
  /\ nextSub = 1
  /\ pc = [r \in Reqs |-> "idle"]
  /\ req = [r \in Reqs |-> NoReq]
  /\ pool = [r \in Reqs |-> <<>>]
  /\ user = [r \in Reqs |-> <<>>]
  /\ tokens = [r \in Reqs |-> 0]
  /\ code = [r \in Reqs |-> ""]
  /\ vp = [r \in Reqs |-> "none"]
  /\ out = [r \in Reqs |-> NoOut]
  /\ calls = [r \in Reqs |-> NoCalls]
  /\ issued = {}
  /\ refreshed = <<>>
  /\ groups = [p \in PoolIds |-> <<>>]
  /\ nextClient = 1
  /\ clientLog = [created |-> {"c1", "c2"}, deleted |-> {}]
  /\ deletedPools = {}
  /\ groupLog = {}
  /\ invocation = <<>>

InitFrom(configs, documents) ==
  InitCached(configs, documents, {NewFactory("InMemoryCache", PoolIds)})

InitWith(configs) ==
  InitFrom(configs, { [p \in PoolIds |-> IF p = "p1" THEN InitialUsersP1
                                                     ELSE InitialUsersP2] })

Init == InitWith(Deployments)

(* InitiateAuth, USER_PASSWORD_AUTH *)

\* InitiateAuth, lines 262-277: resolve the client's pool, dispatch on AuthFlow
IA_Begin(r, requests) ==
  /\ pc[r] = "idle"
  /\ StartAllowed
  /\ \E rq \in requests :
       LET p == getUserPoolForClientId(config, clients, rq.ClientId)
           d == InitiateAuthDispatch(p, rq)
       IN /\ req' = Upd(req, r, rq)
          /\ pool' = Upd(pool, r, p)
          /\ IF d = "userPasswordAuthFlow"
               THEN pc' = Upd(pc, r, "ia_lookup") /\ out' = out
             ELSE IF d = "refreshTokenAuthFlow"
               THEN pc' = Upd(pc, r, "rt_resolve") /\ out' = out
             ELSE Done(r, Failed(d))
  /\ UNCHANGED <<storeVars, users, now, nextToken, nextSub, user, tokens,
                 code, vp, calls, issued, refreshed, adminVars>>

\* userPasswordAuthFlow, lines 166-200, with the synchronous head of the
\* challenge it calls: what happens once `user` is known.  cl is the
\* request's call record so far.
Decide(r, u, cl) ==
  LET cfg == pool[r][1]
      d == PasswordFlowDecision(cfg, u, req[r].PASSWORD)
  IN /\ user' = Upd(user, r, u)
     /\ IF d = "verifyPasswordChallenge"
          THEN \* line 187: the challenge is started and not awaited
               /\ vp' = Upd(vp, r, "gen")
               /\ IF "PostAuthentication" \in functionConfig
                    THEN /\ pc' = Upd(pc, r, "ia_postauth")
                         /\ calls' = Upd(calls, r,
                              [cl EXCEPT !.generate = @ + 1,
                                         !.postAuthentication = @ + 1])
                    ELSE /\ pc' = Upd(pc, r, "ia_result")
                         /\ calls' = Upd(calls, r, [cl EXCEPT !.generate = @ + 1])
               /\ UNCHANGED <<out, code>>
        ELSE IF d = "verifyMfaChallenge"
          THEN IF MfaChallengeCheck(u[1]) = "deliver"
                 THEN \E c \in Codes :
                        /\ code' = Upd(code, r, c)
                        /\ calls' = Upd(calls, r,
                             [cl EXCEPT !.deliver = Append(@, c)])
                        /\ pc' = Upd(pc, r, "mfa_deliver")
                        /\ UNCHANGED <<vp, out>>
                 ELSE /\ Done(r, Failed(MfaChallengeCheck(u[1])))
                      /\ calls' = Upd(calls, r, cl)
                      /\ UNCHANGED <<vp, code>>
        ELSE IF d = "NEW_PASSWORD_REQUIRED"
          THEN \* newPasswordChallenge, lines 120-128
               /\ Done(r, [NoOut EXCEPT !.ChallengeName = "NEW_PASSWORD_REQUIRED",
                                        !.USER_ID_FOR_SRP = u[1].Username,
                                        !.userAttributes =
                                           <<attributesToRecord(u[1].Attributes)>>])
               /\ calls' = Upd(calls, r, cl)
               /\ UNCHANGED <<vp, code>>
        ELSE /\ Done(r, Failed(d))
             /\ calls' = Upd(calls, r, cl)
             /\ UNCHANGED <<vp, code>>

\* the event with the request's ClientMetadata passed on as clientMetadata
UserMigrationEvent_ClientMetadata(rq, cfg) ==
  [clientId |-> rq.ClientId, password |-> rq.PASSWORD, userAttributes |-> <<>>,
   username |-> rq.USERNAME, userPoolId |-> cfg.Id,
   clientMetadata |-> rq.ClientMetadata, validationData |-> ""]

\* lines 150-163: the event handed to the UserMigration trigger; "" stands
\* for undefined
UserMigrationEvent(rq, cfg) ==
  [clientId |-> rq.ClientId, password |-> rq.PASSWORD, userAttributes |-> <<>>,
   username |-> rq.USERNAME, userPoolId |-> cfg.Id,
   clientMetadata |-> "", validationData |-> rq.ClientMetadata]

\* lines 142-164: the lookup, and the UserMigration trigger on a miss
IA_Lookup(r) ==
  /\ pc[r] = "ia_lookup"
  /\ LET cfg == pool[r][1]
         u == getUserByUsername(cfg, users[cfg.Id], req[r].USERNAME)
     IN IF u = <<>> /\ "UserMigration" \in functionConfig
          THEN /\ pc' = Upd(pc, r, "ia_migrate")
               /\ calls' = Upd(calls, r,
                    [calls[r] EXCEPT !.userMigration = @ + 1,
                                     !.userMigrationEvent =
                                       <<UserMigrationEvent(req[r], cfg)>>])
               /\ UNCHANGED <<user, vp, out, code>>
          ELSE Decide(r, u, calls[r])
  /\ UNCHANGED <<storeVars, users, now, nextToken, nextSub, req, pool, tokens, issued, refreshed, adminVars>>

\* the UserMigration trigger answers: it fails, or it returns a user it has
\* saved in the pool (the trigger's own save, not counted in calls.saveUser);
\* the user's password is the function's to decide
IA_Migrated(r) ==
  /\ pc[r] = "ia_migrate"
  /\ \/ /\ \E e \in LambdaErrors : Done(r, Failed(e))
        /\ UNCHANGED <<users, nextSub, user, vp, code, calls>>
     \/ /\ nextSub <= MaxSubs
        /\ \E st \in {"CONFIRMED", "RESET_REQUIRED"}, w \in {req[r].PASSWORD, "old"} :
             LET m == [NewUser(req[r].USERNAME, st, w,
                               <<attribute("sub", SubNames[nextSub])>>, <<>>, <<>>)
                         EXCEPT !.UserCreateDate = now, !.UserLastModifiedDate = now]
             IN /\ users' = [users EXCEPT ![pool[r][1].Id] = saveUser(@, m)]
                /\ Decide(r, <<m>>, calls[r])
        /\ nextSub' = nextSub + 1
  /\ UNCHANGED <<storeVars, now, nextToken, req, pool, tokens, issued, refreshed, adminVars>>

\* verifyPasswordChallenge, lines 98-111: generate resolves, and
\* storeRefreshToken pushes the token on the user it was handed and saves
\* that user
VP_Generate(r) ==
  /\ vp[r] = "gen"
  /\ LET saved == storeRefreshToken(user[r][1], nextToken)
     IN /\ tokens' = Upd(tokens, r, nextToken)
        /\ users' = [users EXCEPT ![pool[r][1].Id] = saveUser(@, saved)]
        /\ user' = Upd(user, r, <<saved>>)
  /\ nextToken' = nextToken + 1
  /\ calls' = Upd(calls, r, [calls[r] EXCEPT !.saveUser = @ + 1])
  /\ vp' = Upd(vp, r, "saving")
  /\ UNCHANGED <<storeVars, now, nextSub, pc, req, pool, code, out, issued, refreshed, adminVars>>

\* the save has been persisted: verifyPasswordChallenge resolves
VP_Saved(r) ==
  /\ vp[r] = "saving"
  /\ vp' = Upd(vp, r, "resolved")
  /\ UNCHANGED <<storeVars, users, now, nextToken, nextSub, pc, req, pool,
                 user, tokens, code, out, calls, issued, refreshed, adminVars>>

\* lines 189-200: the PostAuthentication trigger answers
IA_PostAuthentication(r) ==
  /\ pc[r] = "ia_postauth"
  /\ \/ pc' = Upd(pc, r, "ia_result") /\ out' = out
     \/ \E e \in LambdaErrors : Done(r, Failed(e))
  /\ UNCHANGED <<storeVars, users, now, nextToken, nextSub, req, pool, user,
                 tokens, code, vp, calls, issued, refreshed, adminVars>>

\* line 202: the flow returns the challenge's promise; the response is the
\* promise's value
IA_Result(r) ==
  /\ pc[r] = "ia_result"
  /\ vp[r] = "resolved"
  /\ Done(r, [NoOut EXCEPT !.ChallengeName = "PASSWORD_VERIFIER",
                           !.AccessToken = tokens[r], !.IdToken = tokens[r],
                           !.RefreshToken = tokens[r]])
  /\ issued' = issued \cup
       {[token |-> tokens[r], pool |-> pool[r][1].Id, username |-> user[r][1].Username]}
  /\ UNCHANGED <<storeVars, users, now, nextToken, nextSub, req, pool, user,
                 tokens, code, vp, calls, refreshed, adminVars>>

\* verifyMfaChallenge, lines 61-79: deliver answers; on success the user is
\* saved with the code
MFA_Delivered(r) ==
  /\ pc[r] = "mfa_deliver"
  /\ \/ /\ users' = [users EXCEPT ![pool[r][1].Id] =
                       saveUser(@, [user[r][1] EXCEPT !.MFACode = code[r]])]
        /\ calls' = Upd(calls, r, [calls[r] EXCEPT !.saveUser = @ + 1])
        /\ pc' = Upd(pc, r, "mfa_saving")
        /\ out' = out
     \/ /\ Done(r, Failed("DeliveryError"))
        /\ UNCHANGED <<users, calls>>
  /\ UNCHANGED <<storeVars, now, nextToken, nextSub, req, pool, user, tokens,
                 code, vp, issued, refreshed, adminVars>>

\* lines 81-88: the save has been persisted, the challenge is returned
MFA_Saved(r) ==
  /\ pc[r] = "mfa_saving"
  /\ Done(r, [NoOut EXCEPT !.ChallengeName = "SMS_MFA",
                           !.USER_ID_FOR_SRP = user[r][1].Username])
  /\ UNCHANGED <<storeVars, users, now, nextToken, nextSub, req, pool, user,
                 tokens, code, vp, calls, issued, refreshed, adminVars>>

IA_Start(r) == IA_Begin(r, InitiateAuthRequests)

\* the same, for the requests of SignInRequests only
IA_StartSignIn(r) == IA_Begin(r, SignInRequests)

IA_StartPasswordSignIn(r) == IA_Begin(r, PasswordSignInRequests)

(* InitiateAuth, REFRESH_TOKEN and REFRESH_TOKEN_AUTH *)

\* refreshTokenAuthFlow, lines 220-223: the client's pool is resolved again
RT_Resolve(r) ==
  /\ pc[r] = "rt_resolve"
  /\ LET p == getUserPoolForClientId(config, clients, req[r].ClientId)
     IN IF p = <<>>
          THEN Done(r, Failed("ResourceNotFoundError")) /\ pool' = pool
          ELSE /\ pool' = Upd(pool, r, p)
               /\ pc' = Upd(pc, r, "rt_lookup")
               /\ out' = out
  /\ UNCHANGED <<storeVars, users, now, nextToken, nextSub, req, user, tokens,
                 code, vp, calls, issued, refreshed, adminVars>>

\* a flow that asks tokens of the generator before it looks the user up
RT_Lookup_GenerateFirst(r) ==
  /\ pc[r] = "rt_lookup"
  /\ calls' = Upd(calls, r, [calls[r] EXCEPT !.generate = @ + 1])
  /\ LET u == getUserByRefreshToken(users[pool[r][1].Id], req[r].REFRESH_TOKEN)
     IN IF u = <<>>
          THEN Done(r, Failed("NotAuthorizedError")) /\ UNCHANGED user
          ELSE /\ user' = Upd(user, r, u)
               /\ pc' = Upd(pc, r, "rt_gen")
               /\ out' = out
  /\ UNCHANGED <<storeVars, users, now, nextToken, nextSub, req, pool, tokens,
                 code, vp, issued, refreshed, adminVars>>

\* lines 224-243: the user holding the token is looked up; tokens are asked
\* of the generator
RT_Lookup(r) ==
  /\ pc[r] = "rt_lookup"
  /\ LET u == getUserByRefreshToken(users[pool[r][1].Id], req[r].REFRESH_TOKEN)
     IN IF u = <<>>
          THEN Done(r, Failed("NotAuthorizedError")) /\ UNCHANGED <<user, calls>>
          ELSE /\ user' = Upd(user, r, u)
               /\ calls' = Upd(calls, r, [calls[r] EXCEPT !.generate = @ + 1])
               /\ pc' = Upd(pc, r, "rt_gen")
               /\ out' = out
  /\ UNCHANGED <<storeVars, users, now, nextToken, nextSub, req, pool, tokens,
                 code, vp, issued, refreshed, adminVars>>

\* lines 245-257: generate resolves; the response carries the access and id
\* tokens only
RT_Generate(r) ==
  /\ pc[r] = "rt_gen"
  /\ tokens' = Upd(tokens, r, nextToken)
  /\ nextToken' = nextToken + 1
  /\ Done(r, [NoOut EXCEPT !.AccessToken = nextToken, !.IdToken = nextToken])
  /\ refreshed' = Append(refreshed,
       [token |-> req[r].REFRESH_TOKEN, pool |-> pool[r][1].Id,
        username |-> user[r][1].Username])
  /\ UNCHANGED <<storeVars, users, now, nextSub, req, pool, user, code, vp,
                 calls, issued, adminVars>>

(* AdminDeleteUserAttributes *)

\* adminDeleteUserAttributes.ts, lines 23-27
ADUA_Start(r) ==
  /\ pc[r] = "idle"
  /\ StartAllowed
  /\ \E rq \in AdminDeleteUserAttributesRequests :
       LET p == getUserPool(config, rq.UserPoolId)
       IN /\ req' = Upd(req, r, rq)
          /\ pool' = Upd(pool, r, p)
          /\ IF p = <<>>
               THEN Done(r, Failed("ResourceNotFoundError"))
               ELSE pc' = Upd(pc, r, "adua_lookup") /\ out' = out
  /\ UNCHANGED <<storeVars, users, now, nextToken, nextSub, user, tokens,
                 code, vp, calls, issued, refreshed, adminVars>>

\* the user the target saves, lines 34-38
AdminDeleteUserAttributesUpdate(u, names, date) ==
  [u EXCEPT !.Attributes = attributesRemove(@, names),
            !.UserLastModifiedDate = date]

\* lines 29-40: the lookup and the save of the updated user
ADUA_Lookup(r) ==
  /\ pc[r] = "adua_lookup"
  /\ LET cfg == pool[r][1]
         u == getUserByUsername(cfg, users[cfg.Id], req[r].Username)
     IN IF u = <<>>
          THEN /\ Done(r, Failed("NotAuthorizedError"))
               /\ UNCHANGED <<users, user, calls>>
          ELSE /\ users' = [users EXCEPT ![cfg.Id] =
                    saveUser(@, AdminDeleteUserAttributesUpdate(
                                  u[1], req[r].UserAttributeNames, now))]
               /\ user' = Upd(user, r, u)
               /\ calls' = Upd(calls, r, [calls[r] EXCEPT !.saveUser = @ + 1])
               /\ pc' = Upd(pc, r, "adua_saving")
               /\ out' = out
  /\ UNCHANGED <<storeVars, now, nextToken, nextSub, req, pool, tokens, code,
                 vp, issued, refreshed, adminVars>>

\* line 42
ADUA_Saved(r) ==
  /\ pc[r] = "adua_saving"
  /\ Done(r, NoOut)
  /\ UNCHANGED <<storeVars, users, now, nextToken, nextSub, req, pool, user,
                 tokens, code, vp, calls, issued, refreshed, adminVars>>

(* The pool, client and group operations; each is served in one step *)

\* what these operations never touch
authVars == <<functionConfig, now, nextToken, nextSub, user, tokens, code, vp,
              calls, issued, refreshed, invocation, factory>>

\* the request rq, whose UserPoolId resolved to p, ends with o
Served(r, rq, p, o) ==
  /\ req' = Upd(req, r, rq)
  /\ pool' = Upd(pool, r, p)
  /\ Done(r, o)

\* describeUserPool.ts, lines 14-37
DescribeUserPool(r) ==
  /\ pc[r] = "idle"
  /\ \E rq \in PoolRequests("DescribeUserPool", {"p1", "p0"}) :
       LET p == getUserPool(config, rq.UserPoolId)
       IN Served(r, rq, p,
            IF p = <<>>
              THEN [Failed("ResourceNotFoundError") EXCEPT
                      !.message = DescribeUserPoolMessage(rq.UserPoolId)]
              ELSE [NoOut EXCEPT
                      !.UserPool = <<DescribeUserPoolResponse(p[1], now)>>])
  /\ UNCHANGED <<authVars, config, clients, users, adminVars>>

\* getUserPoolMfaConfig.ts, lines 14-36
GetUserPoolMfaConfig(r) ==
  /\ pc[r] = "idle"
  /\ \E rq \in PoolRequests("GetUserPoolMfaConfig", {"p1", "p0"}) :
       LET p == getUserPool(config, rq.UserPoolId)
       IN Served(r, rq, p,
            IF p = <<>> \/ p[1].Id # rq.UserPoolId
              THEN Failed("ResourceNotFoundError")
              ELSE [NoOut EXCEPT !.MfaConfiguration = p[1].MfaConfiguration])
  /\ UNCHANGED <<authVars, config, clients, users, adminVars>>

\* listGroups.ts, lines 83-109
ListUsers(r) ==
  /\ pc[r] = "idle"
  /\ \E rq \in PoolRequests("ListUsers", {"p1", "p0"}) :
       LET p == getUserPool(config, rq.UserPoolId)
       IN Served(r, rq, p,
            IF p = <<>>
              THEN Failed("ResourceNotFoundError")
              ELSE [NoOut EXCEPT !.Users =
                      [i \in 1..Len(listUsers(users[p[1].Id])) |->
                         UserResponse(listUsers(users[p[1].Id])[i])]])
  /\ UNCHANGED <<authVars, config, clients, users, adminVars>>

\* the users AdminGetUser is asked for: by key, by alias, by sub, and one
\* that is not there
AdminGetUserRequests ==
  { [rq EXCEPT !.Username = n] :
      rq \in PoolRequests("AdminGetUser", {"p1", "p2", "p0"}),
      n \in {"alice", "a@x", "s-mia", "nobody"} }

\* AdminGetUser, part_003 lines 16-41
AdminGetUser(r) ==
  /\ pc[r] = "idle"
  /\ \E rq \in AdminGetUserRequests :
       LET p == getUserPool(config, rq.UserPoolId)
           u == IF p = <<>> THEN <<>>
                ELSE getUserByUsername(p[1], users[p[1].Id], rq.Username)
       IN Served(r, rq, p,
            IF p = <<>> THEN Failed("ResourceNotFoundError")
            ELSE IF u = <<>>
              THEN [Failed("UserNotFoundError")
                      EXCEPT !.message = <<"User does not exist">>]
            ELSE [NoOut EXCEPT !.User = <<AdminGetUserResponse(u[1])>>])
  /\ UNCHANGED <<authVars, config, clients, users, adminVars>>

\* listGroups.ts, lines 12-32 (copy "Target") and lines 46-71 (copy
\* "Router"): without a pool the first calls listGroups on null, a TypeError,
\* the second throws ResourceNotFoundError
ListGroups(r) ==
  /\ pc[r] = "idle"
  /\ \E rq \in PoolRequests("ListGroups", {"p1", "p2", "p0"}), copy \in ListGroupsCopies :
       LET p == getUserPool(config, rq.UserPoolId)
       IN Served(r, rq, p,
            IF p = <<>>
              THEN IF copy = "Target" THEN Failed("TypeError")
                                      ELSE Failed("ResourceNotFoundError")
              ELSE [NoOut EXCEPT !.Groups =
                      [i \in 1..Len(listGroups(groups[p[1].Id])) |->
                         GroupResponse(listGroups(groups[p[1].Id])[i],
                                       rq.UserPoolId)]])
  /\ UNCHANGED <<authVars, config, clients, users, adminVars>>

\* CreateGroup, part_004 lines 14-46
CreateGroup(r) ==
  /\ pc[r] = "idle"
  /\ \E rq \in CreateGroupRequests :
       LET p == getUserPool(config, rq.UserPoolId)
           group == Group(rq.GroupName, rq.Description, now)
       IN IF p = <<>>
            THEN /\ Served(r, rq, p, Failed("ResourceNotFoundError"))
                 /\ UNCHANGED <<groups, groupLog>>
            ELSE /\ groups' = [groups EXCEPT ![p[1].Id] = saveGroup(@, group)]
                 /\ groupLog' =
                      { e \in groupLog : ~( /\ e.UserPoolId = rq.UserPoolId
                                            /\ e.GroupName = rq.GroupName ) }
                      \cup { [UserPoolId |-> rq.UserPoolId,
                              GroupName |-> rq.GroupName,
                              Description |-> rq.Description,
                              replaced |->
                                \E e \in groupLog :
                                  /\ e.UserPoolId = rq.UserPoolId
                                  /\ e.GroupName = rq.GroupName] }
                 /\ Served(r, rq, p,
                      [NoOut EXCEPT !.Group =
                         <<GroupResponse(group, rq.UserPoolId)>>])
  /\ UNCHANGED <<authVars, config, clients, users, nextClient, clientLog,
                 deletedPools>>

\* CreateUserPoolClient, createUserPoolClient.ts lines 14-32, with
\* createAppClient, userPoolService.ts lines 159-177
CreateUserPoolClient(r) ==
  /\ pc[r] = "idle"
  /\ nextClient <= MaxClients
  /\ \E rq \in CreateUserPoolClientRequests :
       LET p == getUserPool(config, rq.UserPoolId)
           id == ClientIds[nextClient]
       IN IF p = <<>>
            THEN /\ Served(r, rq, p, Failed("ResourceNotFoundError"))
                 /\ UNCHANGED <<clients, nextClient, clientLog>>
            ELSE LET appClient == createAppClient(p[1], id, rq.ClientName, now)
                 IN /\ clients' = clients \cup {appClient}
                    /\ nextClient' = nextClient + 1
                    /\ clientLog' = [clientLog EXCEPT !.created = @ \cup {id}]
                    /\ Served(r, rq, p,
                         [NoOut EXCEPT !.UserPoolClient = <<appClient>>])
  /\ UNCHANGED <<authVars, config, users, groups, deletedPools, groupLog>>

\* deleteUserPoolClient.ts, lines 8-20
DeleteUserPoolClient(r) ==
  /\ pc[r] = "idle"
  /\ \E rq \in DeleteUserPoolClientRequests :
       LET appClient == getAppClient(clients, rq.ClientId)
       IN IF appClient = <<>>
            THEN /\ Served(r, rq, <<>>, Failed("ResourceNotFoundError"))
                 /\ UNCHANGED <<clients, clientLog>>
            ELSE /\ clients' = deleteAppClient(clients, appClient[1])
                 /\ clientLog' =
                      [clientLog EXCEPT !.deleted = @ \cup {rq.ClientId}]
                 /\ Served(r, rq, <<>>, NoOut)
  /\ UNCHANGED <<authVars, config, users, groups, nextClient, deletedPools,
                 groupLog>>

\* DeleteUserPool, createUserPoolClient.ts lines 41-54; deleteUserPool ends
\* in UserPoolServiceFactoryImpl.delete, userPoolService.ts lines 372-385,
\* which is synchronous: the pool's store is gone when the target returns
DeleteUserPool(r) ==
  /\ pc[r] = "idle"
  /\ \E rq \in PoolRequests("DeleteUserPool", {"p1", "p0"}) :
       LET p == getUserPool(config, rq.UserPoolId)
       IN IF p = <<>>
            THEN /\ Served(r, rq, p, Failed("ResourceNotFoundError"))
                 /\ UNCHANGED <<config, users, groups, deletedPools, groupLog>>
            ELSE /\ config' = dataStoreFactoryDelete(config, p[1].Id)
                 /\ users' = dataStoreFactoryDelete(users, p[1].Id)
                 /\ groups' = dataStoreFactoryDelete(groups, p[1].Id)
                 /\ deletedPools' = deletedPools \cup {p[1].Id}
                 /\ groupLog' = {e \in groupLog : e.UserPoolId # p[1].Id}
                 /\ Served(r, rq, p, NoOut)
  /\ UNCHANGED <<authVars, clients, nextClient, clientLog>>

(* Lambda.invoke *)

\* a call of LambdaService.invoke: the invocation is recorded with the
\* answer the function gave and with what invoke made of it
Lambda_Invoke ==
  /\ \E trigger \in Triggers, answer \in Answers :
       invocation' =
         <<[trigger |-> trigger, answer |-> answer,
            outcome |-> invoke(functionConfig, trigger, answer)]>>
  /\ UNCHANGED <<storeVars, users, now, nextToken, nextSub, pc, req, pool,
                 user, tokens, code, vp, out, calls, issued, refreshed,
                 groups, nextClient, clientLog, deletedPools, groupLog,
                 factory>>

\* a call of LambdaService.invoke with an event of some trigger source: the
\* record keeps what enabled says of the trigger, the number of calls of the
\* function and the outcome
Lambda_InvokeEvent ==
  /\ invocation = <<>>
  /\ \E trigger \in Triggers, source \in TriggerSources, answer \in Answers :
       invocation' =
         <<[trigger |-> trigger, source |-> source, answer |-> answer,
            enabled |-> enabled(functionConfig, trigger),
            invoked |-> invocations(functionConfig, trigger, source, answer),
            outcome |-> invokeEvent(functionConfig, trigger, source, answer)]>>
  /\ UNCHANGED <<storeVars, users, now, nextToken, nextSub, pc, req, pool,
                 user, tokens, code, vp, out, calls, issued, refreshed,
                 groups, nextClient, clientLog, deletedPools, groupLog,
                 factory>>

\* the caller has the outcome
Lambda_Return ==
  /\ invocation # <<>>
  /\ invocation' = <<>>
  /\ UNCHANGED <<storeVars, users, now, nextToken, nextSub, pc, req, pool,
                 user, tokens, code, vp, out, calls, issued, refreshed,
                 groups, nextClient, clientLog, deletedPools, groupLog,
                 factory>>

(* The factories *)

\* what the other operations leave alone when a factory is called
factoryFrame ==
  <<storeVars, users, now, nextToken, nextSub, pc, req, pool, user, tokens,
    code, vp, out, calls, issued, refreshed, groups, nextClient, clientLog,
    deletedPools, groupLog, invocation>>

\* a call of the factory made and answered: the call is kept with its
\* answer, the instance handed out is live
Called(op, id, result) ==
  /\ result.factory.instances <= MaxInstances
  /\ factory' =
       [result.factory EXCEPT
          !.call = <<[op |-> op, id |-> id, value |-> result.value]>>,
          !.live[id] =
             IF op = "delete" /\ result.value = TRUE THEN {}
             ELSE IF op # "delete" /\ result.value # <<>>
                    THEN @ \cup {result.value[1]}
                    ELSE @,
          !.deleted =
             IF op = "delete" /\ result.value = TRUE THEN @ \cup {id}
             ELSE IF op = "create" THEN @ \ {id}
             ELSE @]
  /\ UNCHANGED factoryFrame

Factory_Create ==
  \E id \in PoolIds : Called("create", id, UserPoolServiceFactory_create(factory, id))

Factory_Get ==
  \E id \in PoolIds : Called("get", id, UserPoolServiceFactory_get(factory, id))

Factory_Delete ==
  \E id \in PoolIds : Called("delete", id, UserPoolServiceFactory_delete(factory, id))

(* The CustomMessage trigger *)

\* a call of the trigger: lambda.invoke throws one of its errors or returns
\* the function's response
CustomMessage_Call ==
  /\ invocation = <<>>
  /\ \E event \in CustomMessageEvents,
        answer \in { Throws(e, <<>>) :
                       e \in LambdaErrors \cup {"InvalidLambdaResponseError"} }
                   \cup { Returns(response) : response \in CustomMessageResponses } :
       invocation' =
         <<[trigger |-> "CustomMessage", event |-> event, answer |-> answer,
            outcome |-> customMessage(event, answer)]>>
  /\ UNCHANGED <<storeVars, users, now, nextToken, nextSub, pc, req, pool,
                 user, tokens, code, vp, out, calls, issued, refreshed,
                 groups, nextClient, clientLog, deletedPools, groupLog,
                 factory>>

\* the caller has taken the trigger's result
CustomMessage_Return ==
  /\ invocation # <<>>
  /\ invocation' = <<>>
  /\ UNCHANGED <<storeVars, users, now, nextToken, nextSub, pc, req, pool,
                 user, tokens, code, vp, out, calls, issued, refreshed,
                 groups, nextClient, clientLog, deletedPools, groupLog,
                 factory>>

(* validatePermittedAttributeChanges *)

\* a call of the validator with a request's attributes and the schema of the
\* request's pool: userPoolService.ts, lines 388-425
VPAC_Call(r) ==
  /\ pc[r] = "idle"
  /\ \E rq \in ValidateRequests :
       LET p == getUserPool(config, rq.UserPoolId)
           result == validatePermittedAttributeChanges(
                       rq.UserAttributes, p[1].SchemaAttributes)
       IN /\ req' = Upd(req, r, rq)
          /\ pool' = Upd(pool, r, p)
          /\ Done(r, [NoOut EXCEPT !.error = result.error,
                                   !.message = result.message,
                                   !.Attributes = result.value])
  /\ UNCHANGED <<storeVars, users, now, nextToken, nextSub, user, tokens,
                 code, vp, calls, issued, refreshed, adminVars>>

(* SignUp *)

\* a variant that sends the code by email when the pool verifies nothing
SignUpChannel_EmailByDefault(autoVerified, attributes) ==
  IF attributesInclude("email", attributes) THEN "email" ELSE "missing"

\* a variant that sends no code when the user has no attribute to verify
SignUpChannel_NoneIfMissing(autoVerified, attributes) ==
  IF "phone_number" \in autoVerified /\ attributesInclude("phone_number", attributes)
    THEN "phone_number"
  ELSE IF "email" \in autoVerified /\ attributesInclude("email", attributes)
    THEN "email"
  ELSE "none"

\* step 4: the channel the confirmation code goes to; "none" when the pool
\* verifies nothing, "missing" when the user has no attribute to verify
SignUpChannel(autoVerified, attributes) ==
  IF autoVerified = {} THEN "none"
  ELSE IF "phone_number" \in autoVerified /\ attributesInclude("phone_number", attributes)
    THEN "phone_number"
  ELSE IF "email" \in autoVerified /\ attributesInclude("email", attributes)
    THEN "email"
  ELSE "missing"

\* a variant that ignores autoConfirmUser
ApplyPreSignUp_Unconfirmed(u, autoConfirmUser, autoVerifyEmail, autoVerifyPhone) ==
  u

\* step 3: the effect of the PreSignUp answer on the user under construction
ApplyPreSignUp(u, autoConfirmUser, autoVerifyEmail, autoVerifyPhone) ==
  LET a1 == IF autoVerifyEmail /\ attributesInclude("email", u.Attributes)
              THEN Append(u.Attributes, attribute("email_verified", "true"))
              ELSE u.Attributes
      a2 == IF autoVerifyPhone /\ attributesInclude("phone_number", a1)
              THEN Append(a1, attribute("phone_number_verified", "true"))
              ELSE a1
  IN [u EXCEPT !.UserStatus = IF autoConfirmUser THEN "CONFIRMED" ELSE @,
               !.Attributes = a2]

\* step 7: the event PostConfirmation is called with
PostConfirmationEvent(rq, cfg, u) ==
  [source |-> "PostConfirmation_ConfirmSignUp", clientId |-> rq.ClientId,
   userPoolId |-> cfg.Id, username |-> u.Username,
   userAttributes |->
     Append(u.Attributes, attribute("cognito:user_status", "CONFIRMED"))]

SignUpResponse(u) ==
  [NoOut EXCEPT !.UserConfirmed = (u.UserStatus = "CONFIRMED"),
                !.UserSub = attributeValue("sub", u.Attributes)]

\* step 1: resolve the pool from the ClientId
SU_Begin(r, requests) ==
  /\ pc[r] = "idle"
  /\ StartAllowed
  /\ \E rq \in requests :
       LET p == getUserPoolForClientId(config, clients, rq.ClientId)
       IN /\ req' = Upd(req, r, rq)
          /\ pool' = Upd(pool, r, p)
          /\ IF p = <<>>
               THEN Done(r, Failed("ResourceNotFoundError"))
               ELSE pc' = Upd(pc, r, "su_lookup") /\ out' = out
  /\ UNCHANGED <<storeVars, users, now, nextToken, nextSub, user, tokens,
                 code, vp, calls, issued, refreshed, adminVars>>

SU_Start(r) == SU_Begin(r, SignUpRequests)

\* steps 4-6, from the user as it stands after PreSignUp: pick the channel;
\* generate, keep and deliver the code; else persist at once
SU_Confirmation(r, u, cl) ==
  LET cfg == pool[r][1]
      ch == SignUpChannel(cfg.AutoVerifiedAttributes, u.Attributes)
  IN IF ch = "none"
       THEN /\ users' = [users EXCEPT ![cfg.Id] = saveUser(@, u)]
            /\ user' = Upd(user, r, <<u>>)
            /\ calls' = Upd(calls, r, [cl EXCEPT !.saveUser = @ + 1])
            /\ pc' = Upd(pc, r, "su_saving")
            /\ UNCHANGED <<out, code>>
     ELSE IF ch = "missing"
       THEN /\ Done(r, [Failed("InvalidParameterError") EXCEPT !.message =
                 <<"User has no attribute matching desired auto verified attributes">>])
            /\ user' = Upd(user, r, <<u>>)
            /\ calls' = Upd(calls, r, cl)
            /\ UNCHANGED <<users, code>>
     ELSE \E c \in Codes :
            /\ user' = Upd(user, r, <<[u EXCEPT !.ConfirmationCode = c]>>)
            /\ code' = Upd(code, r, c)
            /\ calls' = Upd(calls, r, [cl EXCEPT !.deliver = Append(@, c)])
            /\ pc' = Upd(pc, r, "su_deliver")
            /\ UNCHANGED <<users, out>>

\* steps 1-3: reject an existing user, construct the new one, call PreSignUp
SU_Lookup(r) ==
  /\ pc[r] = "su_lookup"
  /\ LET cfg == pool[r][1]
         found == getUserByUsername(cfg, users[cfg.Id], req[r].Username)
         u == [NewUser(req[r].Username, "UNCONFIRMED", req[r].Password,
                       <<attribute("sub", SubNames[nextSub])>> \o req[r].UserAttributes,
                       <<>>, <<>>)
                 EXCEPT !.UserCreateDate = now, !.UserLastModifiedDate = now]
     IN IF found # <<>>
          THEN /\ Done(r, Failed("UsernameExistsError"))
               /\ UNCHANGED <<users, nextSub, user, code, calls>>
          ELSE /\ nextSub <= MaxSubs
               /\ nextSub' = nextSub + 1
               /\ IF "PreSignUp" \in functionConfig
                    THEN /\ user' = Upd(user, r, <<u>>)
                         /\ calls' = Upd(calls, r, [calls[r] EXCEPT !.preSignUp = @ + 1])
                         /\ pc' = Upd(pc, r, "su_presignup")
                         /\ UNCHANGED <<users, out, code>>
                    ELSE SU_Confirmation(r, u, calls[r])
  /\ UNCHANGED <<storeVars, now, nextToken, req, pool, tokens, vp, issued, refreshed, adminVars>>

\* step 3: the PreSignUp trigger answers
SU_PreSignUp(r) ==
  /\ pc[r] = "su_presignup"
  /\ \/ /\ Done(r, Failed("UserLambdaValidationError"))
        /\ UNCHANGED <<users, user, code, calls>>
     \/ \E c \in BOOLEAN, e \in BOOLEAN, ph \in BOOLEAN :
          SU_Confirmation(r, ApplyPreSignUp(user[r][1], c, e, ph),
            [calls[r] EXCEPT !.preSignUpAnswer =
               <<[autoConfirmUser |-> c, autoVerifyEmail |-> e,
                  autoVerifyPhone |-> ph]>>])
  /\ UNCHANGED <<storeVars, now, nextToken, nextSub, req, pool, tokens, vp, issued, refreshed, adminVars>>

\* steps 5-6: deliver answers; the user is persisted
SU_Delivered(r) ==
  /\ pc[r] = "su_deliver"
  /\ \/ /\ users' = [users EXCEPT ![pool[r][1].Id] = saveUser(@, user[r][1])]
        /\ calls' = Upd(calls, r, [calls[r] EXCEPT !.saveUser = @ + 1])
        /\ pc' = Upd(pc, r, "su_saving")
        /\ out' = out
     \/ /\ Done(r, Failed("DeliveryError"))
        /\ UNCHANGED <<users, calls>>
  /\ UNCHANGED <<storeVars, now, nextToken, nextSub, req, pool, user, tokens,
                 code, vp, issued, refreshed, adminVars>>

\* steps 7-8: the save has been persisted; PostConfirmation for a user that
\* was auto-confirmed, else the response
SU_Saved(r) ==
  /\ pc[r] = "su_saving"
  /\ IF user[r][1].UserStatus = "CONFIRMED" /\ "PostConfirmation" \in functionConfig
       THEN /\ pc' = Upd(pc, r, "su_postconf")
            /\ calls' = Upd(calls, r,
                 [calls[r] EXCEPT !.postConfirmation = @ + 1,
                                  !.postConfirmationEvent =
                                    <<PostConfirmationEvent(req[r], pool[r][1],
                                                            user[r][1])>>])
            /\ out' = out
       ELSE Done(r, SignUpResponse(user[r][1])) /\ calls' = calls
  /\ UNCHANGED <<storeVars, users, now, nextToken, nextSub, req, pool, user,
                 tokens, code, vp, issued, refreshed, adminVars>>

\* step 7: the PostConfirmation trigger answers; its failure is the
\* request's, a UserLambdaValidationError as that of PreSignUp
SU_PostConfirmation(r) ==
  /\ pc[r] = "su_postconf"
  /\ \/ Done(r, SignUpResponse(user[r][1]))
     \/ Done(r, Failed("UserLambdaValidationError"))
  /\ UNCHANGED <<storeVars, users, now, nextToken, nextSub, req, pool, user,
                 tokens, code, vp, calls, issued, refreshed, adminVars>>

(* The clock *)

\* time passes between two requests
Tick ==
  /\ now < MaxNow
  /\ \A r \in Reqs : pc[r] = "idle"
  /\ now' = now + 1
  /\ UNCHANGED <<storeVars, users, nextToken, nextSub, pc, req, pool, user,
                 tokens, code, vp, out, calls, issued, refreshed, adminVars>>

(* The end of a request *)

\* the response has been sent and nothing of the request is still running:
\* the slot is free for the next request
Finish(r) ==
  /\ pc[r] = "done"
  /\ vp[r] \in {"none", "resolved"}
  /\ pc' = Upd(pc, r, "idle")
  /\ req' = Upd(req, r, NoReq)
  /\ pool' = Upd(pool, r, <<>>)
  /\ user' = Upd(user, r, <<>>)
  /\ tokens' = Upd(tokens, r, 0)
  /\ code' = Upd(code, r, "")
  /\ vp' = Upd(vp, r, "none")
  /\ out' = Upd(out, r, NoOut)
  /\ calls' = Upd(calls, r, NoCalls)
  /\ UNCHANGED <<storeVars, users, now, nextToken, nextSub, issued, refreshed, adminVars>>

\* the steps of a password sign-in that meets neither migration nor MFA
\* delivery
PasswordSignInSteps(r) ==
  \/ IA_Lookup(r) \/ VP_Generate(r) \/ VP_Saved(r)
  \/ IA_PostAuthentication(r) \/ IA_Result(r)

\* the steps of any InitiateAuth request once it has started
InitiateAuthSteps(r) ==
  \/ PasswordSignInSteps(r)
  \/ IA_Migrated(r) \/ MFA_Delivered(r) \/ MFA_Saved(r)
  \/ RT_Resolve(r) \/ RT_Lookup(r) \/ RT_Generate(r)

AdminDeleteUserAttributes(r) ==
  ADUA_Start(r) \/ ADUA_Lookup(r) \/ ADUA_Saved(r)

SignUp(r) ==
  \/ SU_Start(r) \/ SU_Lookup(r) \/ SU_PreSignUp(r) \/ SU_Delivered(r)
  \/ SU_Saved(r) \/ SU_PostConfirmation(r)

\* the deployments a behaviour starts from
InitAuth ==
  /\ Init
  /\ config["p1"].AutoVerifiedAttributes = {}
  /\ functionConfig \subseteq {"UserMigration", "PostAuthentication"}

InitSeq ==
  /\ Init
  /\ functionConfig \in {{}, {"PostAuthentication", "PreSignUp", "PostConfirmation"}}

InitConcurrent ==
  /\ Init
  /\ config["p1"].AutoVerifiedAttributes = {}
  /\ functionConfig \in {{}, {"UserMigration", "PostAuthentication"}}

\* InitiateAuth requests in flight together
Next ==
  \E r \in Reqs : IA_StartSignIn(r) \/ InitiateAuthSteps(r) \/ Finish(r)

Spec == InitConcurrent /\ [][Next]_vars

\* InitiateAuth requests served one after the other
NextAuth ==
  \E r \in SeqReqs : IA_Start(r) \/ InitiateAuthSteps(r) \/ Finish(r)

SpecAuth == InitAuth /\ [][NextAuth]_vars

\* requests of every operation served one after the other
NextSeq ==
  \E r \in SeqReqs :
    \/ IA_StartPasswordSignIn(r) \/ PasswordSignInSteps(r)
    \/ AdminDeleteUserAttributes(r) \/ SignUp(r) \/ Finish(r)

SpecSeq == InitSeq /\ [][NextSeq]_vars

\* SignUp requests served one after the other, the request of slot 1 still
\* on record while slot 2 serves those that follow it
NextTwice ==
  \/ SignUp(1)
  \/ pc[1] = "done" /\ SignUp(2)
  \/ Finish(2)
  \/ pc[2] = "idle" /\ Finish(1)

SpecTwice == InitSeq /\ [][NextTwice]_vars

\* the clock moves while no handler runs
ClockMoves ==
  /\ now < MaxNow
  /\ \A r \in Reqs : pc[r] \in {"idle", "done"}
  /\ now' = now + 1
  /\ UNCHANGED <<storeVars, users, nextToken, nextSub, pc, req, pool, user,
                 tokens, code, vp, out, calls, issued, refreshed, adminVars>>

\* AdminDeleteUserAttributes requests served one after the other, the
\* request of slot 1 still on record while slot 2 serves those that follow it
InitDelete == Init /\ functionConfig = {}

NextDelete ==
  \/ AdminDeleteUserAttributes(1)
  \/ pc[1] = "done" /\ AdminDeleteUserAttributes(2)
  \/ ClockMoves
  \/ Finish(2)
  \/ pc[2] = "idle" /\ Finish(1)

SpecDelete == InitDelete /\ [][NextDelete]_vars

\* the Users documents the read operations are served from: alice with or
\* without each of the three codes
DocumentsWithCodes ==
  { [p \in PoolIds |->
       IF p = "p1"
         THEN [InitialUsersP1 EXCEPT ![1].ConfirmationCode = c, ![1].MFACode = m,
                                     ![1].AttributeVerificationCode = v]
         ELSE InitialUsersP2] :
      c \in {"", "1111"}, m \in {"", "2222"}, v \in {"", "1111"} }

InitRead ==
  /\ InitFrom(Deployments, DocumentsWithCodes)
  /\ functionConfig = {}

\* ListUsers and AdminGetUser requests, one after the other
NextRead ==
  \E r \in SeqReqs : ListUsers(r) \/ AdminGetUser(r) \/ Finish(r)

SpecRead == InitRead /\ [][NextRead]_vars

\* SignUp requests served one after the other, the clock moving in between
NextSignUp ==
  \/ \E r \in SeqReqs : SignUp(r) \/ Finish(r)
  \/ Tick

SpecSignUp == InitSeq /\ [][NextSignUp]_vars

(* getUserByUsername on its own *)

\* users whose names, subs, emails and phone numbers coincide: a@x is named
\* as ann's email, s-ann as ann's sub, +1 has bob's name as its sub, and bob
\* has ann's email and phone number
LookupUsers ==
  { NewUser("ann", "CONFIRMED", "pw",
            <<attribute("sub", "s-ann"), attribute("email", "a@x"),
              attribute("phone_number", "+1")>>, <<>>, <<>>),
    NewUser("a@x", "CONFIRMED", "pw",
            <<attribute("sub", "s-b"), attribute("email", "b@x")>>, <<>>, <<>>),
    NewUser("bob", "CONFIRMED", "pw",
            <<attribute("sub", "s-bob"), attribute("email", "a@x"),
              attribute("phone_number", "+1")>>, <<>>, <<>>),
    NewUser("s-ann", "CONFIRMED", "pw",
            <<attribute("sub", "s-d")>>, <<>>, <<>>),
    NewUser("+1", "CONFIRMED", "pw",
            <<attribute("sub", "bob"), attribute("email", "b@x")>>, <<>>, <<>>) }

\* the Users documents of pool p2: up to MaxStore of these users, each under
\* its own key, in any order of insertion
LookupDocuments ==
  UNION { { s \in [1..n -> LookupUsers] :
              \A i, j \in 1..n : s[i] = s[j] => i = j } : n \in 0..MaxStore }

LookupStrings == {"ann", "a@x", "bob", "s-ann", "+1", "b@x", "s-bob", "zed"}

InitLookup ==
  /\ InitFrom({ [p \in PoolIds |->
                   IF p = "p1" THEN PoolConfig("p1", "OFF", {"email"}, {})
                               ELSE PoolConfig("p2", "OFF", ua, {})] :
                  ua \in SUBSET {"email", "phone_number"} },
              { [p \in PoolIds |-> IF p = "p1" THEN InitialUsersP1 ELSE d] :
                  d \in LookupDocuments })
  /\ functionConfig = {}

\* userPool.getUserByUsername(ctx, username) on pool p2; the slot keeps the
\* lookup string and the result
GetUserByUsername_Call(r) ==
  /\ pc[r] = "idle"
  /\ \E s \in LookupStrings :
       LET p == getUserPool(config, "p2")
       IN /\ req' = Upd(req, r, [NoReq EXCEPT !.op = "getUserByUsername",
                                              !.UserPoolId = "p2", !.Username = s])
          /\ pool' = Upd(pool, r, p)
          /\ user' = Upd(user, r, getUserByUsername(p[1], users["p2"], s))
          /\ Done(r, NoOut)
  /\ UNCHANGED <<storeVars, users, now, nextToken, nextSub, tokens, code, vp,
                 calls, issued, refreshed, adminVars>>

\* calls of getUserByUsername, one after the other
NextLookup ==
  \E r \in SeqReqs : GetUserByUsername_Call(r) \/ Finish(r)

SpecLookup == InitLookup /\ [][NextLookup]_vars

(* Two requests served together: the event loop *)

\* the requests waiting for a function to answer: LambdaService.invoke awaits
\* lambdaClient.invoke(...).promise(), and the handlers await the trigger
TriggerWaits == {"ia_migrate", "ia_postauth", "su_presignup", "su_postconf"}

Waiting == {q \in Reqs : pc[q] \in TriggerWaits}

\* a server whose invocation is synchronous: while a request waits for a
\* function, no other request is resumed
Ready_Synchronous(waiting) == IF waiting = {} THEN Reqs ELSE waiting

\* the requests the event loop may resume, given those that wait for a
\* function: an await frees the loop, so every request may be resumed
Ready(waiting) == Reqs

\* the uuid generator is bounded as the token generator is: a request starts
\* only while a sub is left for every request in flight
SubsLeft == (nextSub - 1) + Cardinality(InFlight) < MaxSubs

\* the sign-ups served next to sign-ins
ServedSignUps ==
  { rq \in SignUpRequests :
      /\ rq.ClientId = "c1"
      /\ rq.UserAttributes \in {<<>>, <<attribute("email", "d@x")>>} }

\* a request arrives
Arrive(r) ==
  SubsLeft /\ (IA_StartPasswordSignIn(r) \/ SU_Begin(r, ServedSignUps))

\* the steps of a request that has arrived, but for the answer of a function
OwnSteps(r) ==
  \/ IA_Lookup(r) \/ VP_Generate(r) \/ VP_Saved(r) \/ IA_Result(r)
  \/ SU_Lookup(r) \/ SU_Delivered(r) \/ SU_Saved(r)

\* a function answers the request that invoked it
Answer(r) ==
  \/ IA_Migrated(r) \/ IA_PostAuthentication(r)
  \/ SU_PreSignUp(r) \/ SU_PostConfirmation(r)

\* the event loop resumes request r
Resume(r) == r \in Ready(Waiting) /\ (OwnSteps(r) \/ Answer(r))

InitServe ==
  /\ Init
  /\ config["p1"].MfaConfiguration = "OFF"
  /\ config["p1"].AutoVerifiedAttributes = {"email"}
  /\ functionConfig = Triggers

\* two requests served together, one in each slot
NextServe ==
  \E r \in Reqs : Arrive(r) \/ Resume(r)

SpecServe == InitServe /\ [][NextServe]_vars

\* the same server, fairly scheduled: a request of slot 2 that can be resumed
\* is resumed, and the functions it invokes answer; nothing is assumed of the
\* functions slot 1 invokes, which may never answer
SpecServeFair == SpecServe /\ WF_vars(Resume(2))

\* the deployments the validator is called in: one per schema
InitValidate ==
  InitWith({ [p \in PoolIds |->
                IF p = "p1"
                  THEN [PoolConfig("p1", "OFF", {"email"}, {})
                          EXCEPT !.SchemaAttributes = s]
                  ELSE PoolConfig("p2", "OFF", {}, {})] : s \in Schemas })
  /\ functionConfig = {}

\* calls of validatePermittedAttributeChanges, one after the other
NextValidate ==
  \E r \in SeqReqs : VPAC_Call(r) \/ Finish(r)

SpecValidate == InitValidate /\ [][NextValidate]_vars

\* the deployment the pool, client and group operations are served in
InitAdmin ==
  /\ InitWith({ [p \in PoolIds |->
                   IF p = "p1" THEN PoolConfig("p1", "OFF", {"email"}, {})
                               ELSE PoolConfig("p2", "OFF", {}, {})] })
  /\ functionConfig = {}

\* the pool, client and group operations, served one after the other
NextAdmin ==
  \E r \in SeqReqs :
    \/ DescribeUserPool(r) \/ ListUsers(r) \/ ListGroups(r) \/ CreateGroup(r)
    \/ CreateUserPoolClient(r) \/ DeleteUserPoolClient(r) \/ DeleteUserPool(r)
    \/ GetUserPoolMfaConfig(r)
    \/ Finish(r)

SpecAdmin == InitAdmin /\ [][NextAdmin]_vars

\* the deployments Lambda.invoke is called in: any set of functions
InitLambda ==
  InitWith({ [p \in PoolIds |->
                IF p = "p1" THEN PoolConfig("p1", "OFF", {"email"}, {})
                            ELSE PoolConfig("p2", "OFF", {}, {})] })

\* calls of Lambda.invoke, one after the other
NextLambda == Lambda_Invoke

SpecLambda == InitLambda /\ [][NextLambda]_vars

\* calls of Lambda.invoke with their events, one after the other
NextInvoke == Lambda_InvokeEvent \/ Lambda_Return

SpecInvoke == InitLambda /\ [][NextInvoke]_vars

\* the factories there may be: either cache, any files of earlier runs
InitFactory ==
  /\ InitCached({ [p \in PoolIds |->
                     IF p = "p1" THEN PoolConfig("p1", "OFF", {"email"}, {})
                                 ELSE PoolConfig("p2", "OFF", {}, {})] },
                { [p \in PoolIds |-> IF p = "p1" THEN InitialUsersP1
                                                  ELSE InitialUsersP2] },
                { NewFactory(kind, files) :
                    kind \in CacheKinds, files \in SUBSET PoolIds })
  /\ functionConfig = {}

\* calls of the factory, one after the other
NextFactory == Factory_Create \/ Factory_Get \/ Factory_Delete

SpecFactory == InitFactory /\ [][NextFactory]_vars

\* calls of the CustomMessage trigger, one after the other
InitCustomMessage == InitLambda /\ functionConfig = {}

NextCustomMessage == CustomMessage_Call \/ CustomMessage_Return

SpecCustomMessage == InitCustomMessage /\ [][NextCustomMessage]_vars

----------------------------------------------------------------------------
(* What the properties below speak about *)

Returned(r) == pc[r] = "done"

\* r serves an InitiateAuth request whose ClientId resolved to a pool
ResolvedInitiateAuth(r) == req[r].op = "InitiateAuth" /\ pool[r] # <<>>

PasswordRequest(r) ==
  /\ ResolvedInitiateAuth(r)
  /\ req[r].AuthFlow = "USER_PASSWORD_AUTH"
  /\ req[r].HasAuthParameters

RefreshRequest(r) ==
  /\ ResolvedInitiateAuth(r)
  /\ req[r].AuthFlow \in {"REFRESH_TOKEN", "REFRESH_TOKEN_AUTH"}

\* the user the pool of request r now stores for the request's USERNAME
Found(r) ==
  getUserByUsername(pool[r][1], users[pool[r][1].Id], req[r].USERNAME)

Holds(u, t) == \E k \in 1..Len(u.RefreshTokens) : u.RefreshTokens[k] = t

\* the users of pool p that hold token t
Holders(p, t) == {k \in 1..Len(users[p]) : Holds(users[p][k], t)}

\* the stored user can sign in with the request's password
PasswordAccepted(r) ==
  /\ Found(r) # <<>>
  /\ Found(r)[1].UserStatus \notin {"RESET_REQUIRED", "FORCE_CHANGE_PASSWORD"}
  /\ Found(r)[1].Password = req[r].PASSWORD

\* MFA is required of the stored user, spelled out as the properties state it
MfaIsRequired(r) ==
  \/ pool[r][1].MfaConfiguration = "ON"
  \/ /\ pool[r][1].MfaConfiguration = "OPTIONAL"
     /\ Len(Found(r)[1].MFAOptions) > 0

----------------------------------------------------------------------------
(* InitiateAuth, USER_PASSWORD_AUTH: the token path *)

\* C1: a USER_PASSWORD_AUTH request for a stored user whose status is
\* neither RESET_REQUIRED nor FORCE_CHANGE_PASSWORD, whose password matches,
\* where MFA is not required, is answered with PASSWORD_VERIFIER and the
\* generated tokens, and when the response is returned the refresh token in
\* it is in that user's persisted RefreshTokens.  The request is served on
\* its own (SpecAuth); a failure of the PostAuthentication trigger, the
\* only error the path can meet, is set aside.
C1_PasswordVerifierStoresToken ==
  \A r \in Reqs :
    ( /\ Returned(r) /\ PasswordRequest(r) /\ PasswordAccepted(r)
      /\ ~MfaIsRequired(r)
      /\ ~(calls[r].postAuthentication = 1 /\ out[r].error \in LambdaErrors) )
    => /\ out[r].error = ""
       /\ out[r].ChallengeName = "PASSWORD_VERIFIER"
       /\ out[r].RefreshToken # 0
       /\ out[r].AccessToken # 0 /\ out[r].IdToken # 0
       /\ out[r].RefreshToken = tokens[r]
       /\ Holds(Found(r)[1], out[r].RefreshToken)

\* a PASSWORD_VERIFIER response returned after the PostAuthentication
\* trigger ran, its refresh token persisted on the user
C1_Witness ==
  \E r \in Reqs :
    /\ Returned(r) /\ PasswordRequest(r)
    /\ out[r].ChallengeName = "PASSWORD_VERIFIER"
    /\ calls[r].postAuthentication = 1
    /\ out[r].RefreshToken >= FirstNewToken
    /\ Holds(Found(r)[1], out[r].RefreshToken)

\* C2: once all requests have completed, every refresh token returned in a
\* PASSWORD_VERIFIER response is held by exactly one user of its pool, for
\* every interleaving of concurrent InitiateAuth requests.
C2_IssuedTokenHeldByOneUser ==
  (\A r \in Reqs : pc[r] \in {"idle", "done"} /\ vp[r] \in {"none", "resolved"})
    => \A i \in issued : Cardinality(Holders(i.pool, i.token)) = 1

\* C3: the outcome of a USER_PASSWORD_AUTH request follows the precedence
\* no user (NotAuthorizedError), RESET_REQUIRED (PasswordResetRequiredError),
\* FORCE_CHANGE_PASSWORD (NEW_PASSWORD_REQUIRED with USER_ID_FOR_SRP the
\* Username), wrong password (InvalidPasswordError), and only then the MFA
\* or the token path.  A failed UserMigration trigger ends the request with
\* the trigger's error before any user is known.
C3_PasswordFlowPrecedence ==
  \A r \in Reqs :
    (Returned(r) /\ PasswordRequest(r)) =>
      IF Found(r) = <<>>
        THEN \/ out[r].error = "NotAuthorizedError"
             \/ calls[r].userMigration = 1 /\ out[r].error \in LambdaErrors
      ELSE IF Found(r)[1].UserStatus = "RESET_REQUIRED"
        THEN out[r].error = "PasswordResetRequiredError"
      ELSE IF Found(r)[1].UserStatus = "FORCE_CHANGE_PASSWORD"
        THEN /\ out[r].error = ""
             /\ out[r].ChallengeName = "NEW_PASSWORD_REQUIRED"
             /\ out[r].USER_ID_FOR_SRP = Found(r)[1].Username
             /\ out[r].RefreshToken = 0
      ELSE IF Found(r)[1].Password # req[r].PASSWORD
        THEN out[r].error = "InvalidPasswordError"
      ELSE /\ out[r].error \notin {"PasswordResetRequiredError", "InvalidPasswordError"}
           /\ out[r].ChallengeName # "NEW_PASSWORD_REQUIRED"
           /\ \/ out[r].ChallengeName \in {"SMS_MFA", "PASSWORD_VERIFIER"}
              \/ out[r].error # ""

\* a user who must change the password, addressed with a wrong password:
\* the challenge wins over InvalidPasswordError
C3_Witness ==
  \E r \in Reqs :
    /\ Returned(r) /\ PasswordRequest(r)
    /\ Found(r) # <<>>
    /\ Found(r)[1].UserStatus = "FORCE_CHANGE_PASSWORD"
    /\ Found(r)[1].Password # req[r].PASSWORD
    /\ out[r].ChallengeName = "NEW_PASSWORD_REQUIRED"

(* InitiateAuth, USER_PASSWORD_AUTH: the MFA path *)

\* C4: with a matching password, where MFA is required (ON, or OPTIONAL and
\* the user has an MFAOption), a user with an SMS option and a phone_number
\* is answered with SMS_MFA; no tokens are generated, no refresh token is
\* stored, PostAuthentication is not invoked, and when the response is
\* returned the persisted MFACode is the code handed to Messages.deliver.
\* The request is served on its own; a failed delivery is set aside.
C4_SmsMfaChallenge ==
  \A r \in Reqs :
    ( /\ Returned(r) /\ PasswordRequest(r) /\ PasswordAccepted(r)
      /\ MfaIsRequired(r)
      /\ \E k \in 1..Len(Found(r)[1].MFAOptions) :
           Found(r)[1].MFAOptions[k].DeliveryMedium = "SMS"
      /\ attributesInclude("phone_number", Found(r)[1].Attributes)
      /\ out[r].error # "DeliveryError" )
    => /\ out[r].error = ""
       /\ out[r].ChallengeName = "SMS_MFA"
       /\ out[r].AccessToken = 0 /\ out[r].IdToken = 0 /\ out[r].RefreshToken = 0
       /\ tokens[r] = 0 /\ calls[r].generate = 0
       /\ calls[r].postAuthentication = 0
       /\ Len(calls[r].deliver) = 1
       /\ Found(r)[1].MFACode = calls[r].deliver[1]
       /\ Found(r) = <<[user[r][1] EXCEPT !.MFACode = calls[r].deliver[1]]>>

\* an SMS_MFA response in a pool where MFA is OPTIONAL
C4_Witness ==
  \E r \in Reqs :
    /\ Returned(r) /\ PasswordRequest(r)
    /\ pool[r][1].MfaConfiguration = "OPTIONAL"
    /\ out[r].ChallengeName = "SMS_MFA"
    /\ Found(r)[1].MFACode = calls[r].deliver[1]

\* C5: where MfaConfiguration is ON, a user without MFAOptions who supplies
\* the right password is refused with NotAuthorizedError; no tokens are
\* generated, nothing is delivered and the handler saves no user.
C5_MfaOnWithoutOptions ==
  \A r \in Reqs :
    ( /\ Returned(r) /\ PasswordRequest(r) /\ PasswordAccepted(r)
      /\ pool[r][1].MfaConfiguration = "ON"
      /\ Len(Found(r)[1].MFAOptions) = 0 )
    => /\ out[r].error = "NotAuthorizedError"
       /\ out[r].ChallengeName = ""
       /\ out[r].AccessToken = 0 /\ out[r].IdToken = 0 /\ out[r].RefreshToken = 0
       /\ tokens[r] = 0 /\ calls[r].generate = 0
       /\ calls[r].deliver = <<>>
       /\ calls[r].saveUser = 0
       /\ Found(r) = user[r]

C5_Witness ==
  \E r \in Reqs :
    /\ Returned(r) /\ PasswordRequest(r) /\ PasswordAccepted(r)
    /\ pool[r][1].MfaConfiguration = "ON"
    /\ Len(Found(r)[1].MFAOptions) = 0
    /\ out[r].error = "NotAuthorizedError"

(* InitiateAuth, REFRESH_TOKEN and REFRESH_TOKEN_AUTH *)

ReplayConsistent ==
  \A i \in 1..Len(refreshed) :
    /\ LET k == UserIndex(users[refreshed[i].pool], refreshed[i].username)
       IN k # 0 /\ Holds(users[refreshed[i].pool][k], refreshed[i].token)
    /\ \A j \in 1..Len(refreshed) :
         (refreshed[j].pool = refreshed[i].pool /\ refreshed[j].token = refreshed[i].token)
           => refreshed[j].username = refreshed[i].username

\* C7: no step of a refresh request changes stored state (the users of
\* every pool, the pool configurations, the clients), so that a refresh
\* token presented again succeeds again for the same user.
C7_RefreshChangesNothing ==
  [][ /\ \A r \in Reqs :
           ( /\ pc'[r] # pc[r]
             /\ req'[r].op = "InitiateAuth"
             /\ req'[r].AuthFlow \in {"REFRESH_TOKEN", "REFRESH_TOKEN_AUTH"} )
           => users' = users /\ config' = config /\ clients' = clients
      /\ ReplayConsistent' ]_vars

\* the same refresh token has succeeded twice, for the same user
C7_Witness ==
  /\ Len(refreshed) = 2
  /\ refreshed[1] = refreshed[2]

(* InitiateAuth, any other AuthFlow *)

\* C8: a request with an AuthFlow other than USER_PASSWORD_AUTH,
\* REFRESH_TOKEN and REFRESH_TOKEN_AUTH fails with UnsupportedError, whoever
\* the client is, and the handler saves nothing.
C8_OtherAuthFlowUnsupported ==
  \A r \in Reqs :
    ( /\ Returned(r) /\ req[r].op = "InitiateAuth"
      /\ req[r].AuthFlow \notin {"USER_PASSWORD_AUTH", "REFRESH_TOKEN", "REFRESH_TOKEN_AUTH"} )
    => out[r].error = "UnsupportedError" /\ calls[r].saveUser = 0

(* SignUp, then InitiateAuth *)

\* the request is a sign-in, with the right password, of a user who signed
\* up and was never confirmed, in a pool that verifies nothing and has no
\* triggers
SignInOfUnconfirmed(r) ==
  /\ Returned(r) /\ PasswordRequest(r)
  /\ pool[r][1].AutoVerifiedAttributes = {}
  /\ functionConfig = {}
  /\ Found(r) # <<>>
  /\ Found(r)[1].UserStatus = "UNCONFIRMED"
  /\ Found(r)[1].Password = req[r].PASSWORD

PasswordVerifierWithTokens(r) ==
  /\ out[r].error = ""
  /\ out[r].ChallengeName = "PASSWORD_VERIFIER"
  /\ out[r].AccessToken # 0 /\ out[r].IdToken # 0 /\ out[r].RefreshToken # 0

\* C9, as stated: in a pool with AutoVerifiedAttributes empty and no
\* triggers, the sign-in of a user who has just signed up is answered with
\* PASSWORD_VERIFIER and tokens, UNCONFIRMED though the user is.
C9_SignUpThenSignIn ==
  \A r \in Reqs : SignInOfUnconfirmed(r) => PasswordVerifierWithTokens(r)

\* C9, amended: the same, in a pool whose MfaConfiguration is not ON.
C9_SignUpThenSignInWithoutMfa ==
  \A r \in Reqs :
    (SignInOfUnconfirmed(r) /\ pool[r][1].MfaConfiguration # "ON")
      => PasswordVerifierWithTokens(r)

C9_Witness ==
  \E r \in Reqs :
    /\ SignInOfUnconfirmed(r)
    /\ pool[r][1].MfaConfiguration # "ON"
    /\ PasswordVerifierWithTokens(r)
    /\ Holds(Found(r)[1], out[r].RefreshToken)

(* The sub attribute *)

\* C10: every persisted user has exactly one attribute named sub.
C10_ExactlyOneSub ==
  \A p \in PoolIds :
    \A k \in 1..Len(users[p]) :
      Cardinality({a \in 1..Len(users[p][k].Attributes) :
                     users[p][k].Attributes[a].Name = "sub"}) = 1

(* Aliases *)

\* C11: in a pool whose UsernameAttributes includes email (or phone_number),
\* no two users of the pool hold the same email (or phone_number) value.
C11_AliasValuesUnique ==
  \A p \in DOMAIN users :
    \A a \in config[p].UsernameAttributes :
      \A i, j \in 1..Len(users[p]) :
        ( /\ i # j
          /\ attributesInclude(a, users[p][i].Attributes)
          /\ attributesInclude(a, users[p][j].Attributes) )
        => attributeValue(a, users[p][i].Attributes)
             # attributeValue(a, users[p][j].Attributes)

(* AdminDeleteUserAttributes: its errors *)

\* C12: AdminDeleteUserAttributes for a Username that resolves to no user of
\* an existing pool fails with UserNotFoundError and saves nothing; for a
\* UserPoolId that resolves to no pool it fails with ResourceNotFoundError.
C12_AdminDeleteUserAttributesErrors ==
  \A r \in Reqs :
    (Returned(r) /\ req[r].op = "AdminDeleteUserAttributes") =>
      IF pool[r] = <<>>
        THEN out[r].error = "ResourceNotFoundError" /\ calls[r].saveUser = 0
      ELSE getUserByUsername(pool[r][1], users[pool[r][1].Id], req[r].Username) = <<>>
             => out[r].error = "UserNotFoundError" /\ calls[r].saveUser = 0

\* the names of the attributes the schema lets a caller change
MutableNames(schema) ==
  {schema[i].Name : i \in {k \in 1..Len(schema) : schema[k].Mutable}}

\* C13: an AdminDeleteUserAttributes request that names an attribute which is
\* not in the pool's SchemaAttributes, or is not Mutable, is rejected with
\* InvalidParameterError and saves nothing.
C13_AdminDeleteUserAttributesSchema ==
  \A r \in Reqs :
    ( /\ Returned(r) /\ req[r].op = "AdminDeleteUserAttributes"
      /\ pool[r] # <<>> /\ user[r] # <<>>
      /\ ~(req[r].UserAttributeNames \subseteq MutableNames(pool[r][1].SchemaAttributes)) )
    => out[r].error = "InvalidParameterError" /\ calls[r].saveUser = 0


(* validatePermittedAttributeChanges *)

\* the attribute of the schema with this name is there and Mutable
Permitted(schema, name) ==
  \E i \in 1..Len(schema) : schema[i].Name = name /\ schema[i].Mutable

InSchema(schema, name) == \E i \in 1..Len(schema) : schema[i].Name = name

Requested(attributes, name) ==
  \E i \in 1..Len(attributes) : attributes[i].Name = name

\* the positions of the attributes the schema does not permit
Offending(schema, attributes) ==
  {i \in 1..Len(attributes) : ~Permitted(schema, attributes[i].Name)}

ValidatorReturned(r) ==
  Returned(r) /\ req[r].op = "validatePermittedAttributeChanges"

\* C14: validatePermittedAttributeChanges returns the request's list unchanged
\* exactly when every requested attribute is a Mutable schema attribute,
\* email_verified comes with email and phone_number_verified with
\* phone_number; otherwise it throws InvalidParameterError, and when some
\* attribute offends the schema the error is the one of the first such
\* attribute in request order, whatever the *_verified rules say.
C14_ValidatePermittedAttributeChanges ==
  \A r \in Reqs :
    ValidatorReturned(r) =>
      LET schema == pool[r][1].SchemaAttributes
          attributes == req[r].UserAttributes
          offending == Offending(schema, attributes)
          verifiedOk ==
            /\ Requested(attributes, "email_verified")
                 => Requested(attributes, "email")
            /\ Requested(attributes, "phone_number_verified")
                 => Requested(attributes, "phone_number")
      IN /\ (offending = {} /\ verifiedOk)
              <=> (out[r].error = "" /\ out[r].Attributes = attributes)
         /\ ~(offending = {} /\ verifiedOk)
              => out[r].error = "InvalidParameterError" /\ out[r].Attributes = <<>>
         /\ offending # {} =>
              LET first == CHOOSE i \in offending : \A j \in offending : i <= j
              IN /\ Len(out[r].message) = 3
                 /\ out[r].message[2] = attributes[first].Name
                 /\ out[r].message[3] =
                      IF InSchema(schema, attributes[first].Name)
                        THEN ": Attribute cannot be updated. (changing an immutable attribute)"
                        ELSE ": Attribute does not exist in the schema."
         /\ (offending = {} /\ ~verifiedOk) => Len(out[r].message) = 1

\* a call whose list breaks a *_verified rule before its first attribute that
\* offends the schema, and which fails on that attribute
C14_Witness ==
  \E r \in Reqs :
    /\ ValidatorReturned(r)
    /\ Len(req[r].UserAttributes) >= 2
    /\ req[r].UserAttributes[1].Name = "email_verified"
    /\ ~Requested(req[r].UserAttributes, "email")
    /\ Permitted(pool[r][1].SchemaAttributes, "email_verified")
    /\ Offending(pool[r][1].SchemaAttributes, req[r].UserAttributes) # {}
    /\ out[r].error = "InvalidParameterError"
    /\ Len(out[r].message) = 3


(* Pools *)

\* r was idle and its request, of operation op, has now been served
ServedNow(r, op) ==
  pc[r] = "idle" /\ pc'[r] = "done" /\ req'[r].op = op

PoolOperations ==
  {"DescribeUserPool", "ListUsers", "ListGroups", "CreateUserPoolClient",
   "DeleteUserPool"}

\* r is the DeleteUserPool request that deleted its pool
DeletedItsPool(r) == req[r].op = "DeleteUserPool" /\ pool[r] # <<>>

\* C16: once DeleteUserPool has deleted pool P, every operation that resolves
\* P by id fails with ResourceNotFoundError, and so does a DeleteUserPool of an
\* id that resolves to no pool.
C16_DeletedPoolIsGone ==
  \A r \in Reqs :
    ( /\ Returned(r) /\ req[r].op \in PoolOperations
      /\ ~DeletedItsPool(r)
      /\ \/ req[r].UserPoolId \in deletedPools
         \/ req[r].op = "DeleteUserPool" /\ req[r].UserPoolId \notin DOMAIN config )
    => out[r].error = "ResourceNotFoundError"

(* App clients *)

\* C17: every app client of the Clients store names a pool that exists.
C17_ClientsNameExistingPools ==
  \A c \in clients : c.UserPoolId \in DOMAIN config

\* the ClientIds a request may name
KnownClientIds ==
  {"c1", "c2", "cX"} \cup {ClientIds[i] : i \in 1..Len(ClientIds)}

Resolves(clientId) == \E c \in clients : c.ClientId = clientId

\* C18: a ClientId resolves exactly when CreateUserPoolClient returned it and
\* no DeleteUserPoolClient has deleted it since; a created client is stored
\* with the UserPoolId of its request and RefreshTokenValidity 30; on a
\* missing pool or an unknown ClientId the two operations fail with
\* ResourceNotFoundError and leave the Clients store alone; neither changes
\* the users or the groups of any pool.
C18_ClientsCreatedAndDeleted ==
  /\ [] /\ \A id \in KnownClientIds :
             Resolves(id) <=> id \in clientLog.created \ clientLog.deleted
        /\ \A r \in Reqs :
             ( /\ Returned(r) /\ req[r].op = "CreateUserPoolClient"
               /\ out[r].error = "" )
             => /\ Len(out[r].UserPoolClient) = 1
                /\ out[r].UserPoolClient[1] \in clients
                /\ out[r].UserPoolClient[1].UserPoolId = req[r].UserPoolId
                /\ out[r].UserPoolClient[1].RefreshTokenValidity = 30
  /\ [][ \A r \in Reqs :
           /\ ServedNow(r, "CreateUserPoolClient") =>
                /\ UNCHANGED <<users, groups>>
                /\ req'[r].UserPoolId \notin DOMAIN config =>
                     /\ out'[r].error = "ResourceNotFoundError"
                     /\ UNCHANGED clients
           /\ ServedNow(r, "DeleteUserPoolClient") =>
                /\ UNCHANGED <<users, groups>>
                /\ ~Resolves(req'[r].ClientId) =>
                     /\ out'[r].error = "ResourceNotFoundError"
                     /\ UNCHANGED clients
                /\ Resolves(req'[r].ClientId) => out'[r].error = ""
     ]_vars

\* a client that was created for p2 and one that was created and deleted
C18_Witness ==
  /\ \E c \in clients :
       c.ClientId \notin {"c1", "c2"} /\ c.UserPoolId = "p2"
  /\ \E id \in clientLog.deleted : id \notin {"c1", "c2"} /\ ~Resolves(id)
  /\ \E r \in Reqs :
       /\ Returned(r) /\ req[r].op = "CreateUserPoolClient"
       /\ out[r].error = ""

(* Groups *)

GroupsCreatedIn(userPoolId) == {e \in groupLog : e.UserPoolId = userPoolId}

\* C19: a ListGroups of pool P returns one entry for each GroupName created in
\* P and no other entry; the entry is the one the latest CreateGroup of that
\* name made and carries UserPoolId P.
C19_GroupsPerPoolAndName ==
  \A r \in Reqs :
    (Returned(r) /\ req[r].op = "ListGroups" /\ out[r].error = "") =>
      LET entries == out[r].Groups
          created == GroupsCreatedIn(req[r].UserPoolId)
      IN /\ Len(entries) = Cardinality(created)
         /\ \A e \in created :
              \E i \in 1..Len(entries) :
                /\ entries[i].GroupName = e.GroupName
                /\ entries[i].Description = e.Description
                /\ \A j \in 1..Len(entries) :
                     entries[j].GroupName = e.GroupName => j = i
         /\ \A i \in 1..Len(entries) :
              /\ entries[i].UserPoolId = req[r].UserPoolId
              /\ \E e \in created : e.GroupName = entries[i].GroupName

\* a ListGroups of p1 after g1 was created twice and g2 once there, and a
\* group of the same name was created in p2
C19_Witness ==
  \E r \in Reqs :
    /\ Returned(r) /\ req[r].op = "ListGroups" /\ req[r].UserPoolId = "p1"
    /\ Len(out[r].Groups) = 2
    /\ \E e \in GroupsCreatedIn("p1") : e.GroupName = "g1" /\ e.replaced
    /\ GroupsCreatedIn("p2") # {}


(* Lambda.invoke *)

\* the invocation of a configured function that was answered (not rejected)
\* with this StatusCode
Answered(inv, statusCode) ==
  /\ inv.trigger \in functionConfig
  /\ ~inv.answer.rejected
  /\ inv.answer.StatusCode = statusCode

\* the payload texts that are JSON, and the response member of those that
\* are JSON objects with one
ParseablePayloads ==
  {"null", "5", "{}", "{\"response\":\"r1\"}", "{\"other\":1,\"response\":\"r2\"}"}

ResponseMember(text) ==
  IF text = "{\"response\":\"r1\"}" THEN <<"r1">>
  ELSE IF text = "{\"other\":1,\"response\":\"r2\"}" THEN <<"r2">>
  ELSE <<>>

\* C20, as stated: a rejected invocation gives
\* UnexpectedLambdaExceptionError; StatusCode 200 with a JSON-parseable
\* payload returns the payload's response field; StatusCode 200 with an
\* unparseable payload gives InvalidLambdaResponseError; any other StatusCode
\* gives UserLambdaValidationError carrying FunctionError.
C20_LambdaInvokeOutcomeAsStated ==
  \A i \in 1..Len(invocation) :
    LET inv == invocation[i]
    IN inv.trigger \in functionConfig =>
         IF inv.answer.rejected
           THEN inv.outcome.error = "UnexpectedLambdaExceptionError"
         ELSE IF inv.answer.StatusCode = 200
           THEN IF inv.answer.Payload \in ParseablePayloads
                  THEN /\ inv.outcome.error = ""
                       /\ inv.outcome.value = ResponseMember(inv.answer.Payload)
                  ELSE inv.outcome.error = "InvalidLambdaResponseError"
         ELSE /\ inv.outcome.error = "UserLambdaValidationError"
              /\ inv.outcome.message =
                   IF inv.answer.FunctionError = "" THEN <<>>
                   ELSE <<inv.answer.FunctionError>>

\* C20, amended: a rejected invocation gives UnexpectedLambdaExceptionError;
\* StatusCode 200 with a payload that parses to a value other than null
\* returns that value's response member (nothing when it has none);
\* StatusCode 200 with an unparseable payload or the payload null gives
\* InvalidLambdaResponseError; any other StatusCode gives
\* UserLambdaValidationError carrying FunctionError.
C20_LambdaInvokeOutcome ==
  \A i \in 1..Len(invocation) :
    LET inv == invocation[i]
    IN inv.trigger \in functionConfig =>
         IF inv.answer.rejected
           THEN inv.outcome.error = "UnexpectedLambdaExceptionError"
         ELSE IF inv.answer.StatusCode = 200
           THEN IF inv.answer.Payload \in ParseablePayloads \ {"null"}
                  THEN /\ inv.outcome.error = ""
                       /\ inv.outcome.value = ResponseMember(inv.answer.Payload)
                  ELSE inv.outcome.error = "InvalidLambdaResponseError"
         ELSE /\ inv.outcome.error = "UserLambdaValidationError"
              /\ inv.outcome.message =
                   IF inv.answer.FunctionError = "" THEN <<>>
                   ELSE <<inv.answer.FunctionError>>

\* an invocation answered with StatusCode 200 and the payload null
C20_Witness ==
  \E i \in 1..Len(invocation) :
    /\ Answered(invocation[i], 200)
    /\ invocation[i].answer.Payload = "null"
    /\ invocation[i].outcome.error = "InvalidLambdaResponseError"


(* The CustomMessage trigger *)

\* the message holds what the template holds, but the code where the
\* template has {####} and the username where it has {username}
Interpolated(message, template, event) ==
  /\ Len(message) = Len(template)
  /\ \A i \in 1..Len(template) :
       message[i] = IF template[i] = "{####}" THEN event.code
                    ELSE IF template[i] = "{username}" THEN event.username
                    ELSE template[i]

Resolvable(cfg, name) ==
  \E i \in 1..Len(users[cfg.Id]) :
    LET u == users[cfg.Id][i]
    IN \/ u.Username = name
       \/ \E k \in 1..Len(u.Attributes) :
            /\ u.Attributes[k].Value = name
            /\ u.Attributes[k].Name \in {"sub"} \cup cfg.UsernameAttributes

\* r is a SignUp whose pool was resolved and which now does its lookup
SignUpLooksUp(r) ==
  req[r].op = "SignUp" /\ pc[r] = "su_lookup" /\ pc'[r] # "su_lookup"

\* C22: a SignUp whose Username resolves to a stored user fails with
\* UsernameExistsError, writes nothing, calls no trigger and delivers
\* nothing; of two identical SignUp calls made one after the other, the
\* first having succeeded, the second fails with UsernameExistsError and the
\* stored user is the one the first wrote.
C22_SignUpOfExistingUser ==
  /\ [][ \A r \in Reqs :
           (SignUpLooksUp(r) /\ Resolvable(pool[r][1], req[r].Username)) =>
             /\ pc'[r] = "done"
             /\ out'[r].error = "UsernameExistsError"
             /\ users' = users
             /\ calls'[r] = NoCalls
       ]_vars
  /\ [] ( ( /\ Returned(1) /\ Returned(2)
            /\ req[1].op = "SignUp" /\ req[2] = req[1]
            /\ out[1].error = "" )
          => /\ out[2].error = "UsernameExistsError"
             /\ calls[2] = NoCalls
             /\ \E i \in 1..Len(users[pool[1][1].Id]) :
                  /\ users[pool[1][1].Id][i] = user[1][1]
                  /\ \A j \in 1..Len(users[pool[1][1].Id]) :
                       users[pool[1][1].Id][j].Username = req[1].Username => j = i )

\* the second of two identical SignUp calls has failed after the first
\* succeeded
C22_Witness ==
  /\ Returned(1) /\ Returned(2)
  /\ req[1].op = "SignUp" /\ req[2] = req[1]
  /\ out[1].error = ""
  /\ out[2].error = "UsernameExistsError"


\* r is a SignUp that has returned its response
SignedUp(r) == Returned(r) /\ req[r].op = "SignUp" /\ out[r].error = ""

\* the positions of the users stored under the Username of r's request
StoredAs(r) ==
  {i \in 1..Len(users[pool[r][1].Id]) :
     users[pool[r][1].Id][i].Username = req[r].Username}

\* the values the uuid generator gives out
GeneratedSubs == {SubNames[i] : i \in 1..Len(SubNames)}

AutoConfirmed(r) ==
  /\ calls[r].preSignUpAnswer # <<>>
  /\ calls[r].preSignUpAnswer[1].autoConfirmUser

PostConfirmationInvoked(r) == calls[r].postConfirmation > 0

\* what C24 says of the PostConfirmation call itself and of the sign-ups
\* that are not auto-confirmed: the call is made once, for an auto-confirmed
\* user that is already persisted as CONFIRMED, with source
\* PostConfirmation_ConfirmSignUp and the persisted attributes plus
\* cognito:user_status = CONFIRMED; without auto-confirmation the user is
\* persisted UNCONFIRMED and the call is not made
PostConfirmationCall(r) ==
  /\ PostConfirmationInvoked(r) =>
       /\ calls[r].postConfirmation = 1
       /\ AutoConfirmed(r)
       /\ "PostConfirmation" \in functionConfig
       /\ Cardinality(StoredAs(r)) = 1
       /\ \A i \in StoredAs(r) :
            LET stored == users[pool[r][1].Id][i]
                event == calls[r].postConfirmationEvent[1]
            IN /\ stored.UserStatus = "CONFIRMED"
               /\ event.source = "PostConfirmation_ConfirmSignUp"
               /\ event.username = req[r].Username
               /\ Len(event.userAttributes) = Len(stored.Attributes) + 1
               /\ \A k \in 1..Len(stored.Attributes) :
                    event.userAttributes[k] = stored.Attributes[k]
               /\ event.userAttributes[Len(event.userAttributes)] =
                    [Name |-> "cognito:user_status", Value |-> "CONFIRMED"]
  /\ (SignedUp(r) /\ ~AutoConfirmed(r)) =>
       /\ ~PostConfirmationInvoked(r)
       /\ \A i \in StoredAs(r) :
            users[pool[r][1].Id][i].UserStatus = "UNCONFIRMED"

Arrived(r) == pc[r] \notin {"idle", "done"}

C25_SuspendedRequestHaltsNoOther ==
  /\ Arrived(2) ~> Returned(2)
  /\ (Arrived(2) /\ 1 \in Waiting) ~> Returned(2)

\* slot 1 waits for PreSignUp holding the first generated sub, and a sign-up
\* of slot 2 that got the second sub, hence looked up after slot 1 began to
\* wait, has run to completion
C25_Witness ==
  /\ pc[1] = "su_presignup"
  /\ attributeValue("sub", user[1][1].Attributes) = SubNames[1]
  /\ Returned(2) /\ req[2].op = "SignUp"
  /\ out[2].error = "" /\ out[2].UserSub = SubNames[2]


\* C26: PostAuthentication is invoked only after the tokens have been
\* generated and the refresh token has been stored: whenever the trigger has
\* been invoked for a password sign-in, the persisted user of the request
\* holds the refresh token of the request.
StoredHolds(r) ==
  /\ tokens[r] # 0
  /\ \E k \in 1..Len(users[pool[r][1].Id]) :
       /\ users[pool[r][1].Id][k].Username = user[r][1].Username
       /\ Holds(users[pool[r][1].Id][k], tokens[r])

C26_PostAuthenticationAfterTokenStored ==
  \A r \in Reqs :
    (PasswordRequest(r) /\ calls[r].postAuthentication > 0) => StoredHolds(r)


\* C27: in the MFA challenge path the code is persisted before it is
\* delivered: once Messages.deliver has been called with a code for an
\* SMS_MFA challenge, the persisted user of the request has that code as its
\* MFACode, also when deliver fails.
PersistedMFACodeIs(r, c) ==
  \E k \in 1..Len(users[pool[r][1].Id]) :
    /\ users[pool[r][1].Id][k].Username = user[r][1].Username
    /\ users[pool[r][1].Id][k].MFACode = c

C27_MFACodePersistedBeforeDelivery ==
  \A r \in Reqs :
    (PasswordRequest(r) /\ calls[r].deliver # <<>>) =>
       PersistedMFACodeIs(r, calls[r].deliver[Len(calls[r].deliver)])


\* C28: in a USER_PASSWORD_AUTH sign-in the UserMigration trigger is invoked
\* exactly when the lookup by USERNAME finds no user and the trigger is
\* enabled, with clientMetadata undefined and validationData the request's
\* ClientMetadata; it is invoked at no other moment; a missing user with the
\* trigger disabled ends in NotAuthorizedError; and a user the trigger returns
\* meets the status and password checks a stored user meets.
LookedUp(r) == PasswordRequest(r) /\ pc[r] = "ia_lookup" /\ pc'[r] # "ia_lookup"

MigrationAnswered(r) ==
  PasswordRequest(r) /\ pc[r] = "ia_migrate" /\ pc'[r] # "ia_migrate"

FailsWith(r, e) == pc'[r] = "done" /\ out'[r].error = e

MfaIsRequiredOf(r, u) ==
  \/ pool[r][1].MfaConfiguration = "ON"
  \/ pool[r][1].MfaConfiguration = "OPTIONAL" /\ Len(u.MFAOptions) > 0

\* the checks of lines 169-177 as the step made them of user u; a user that
\* passes them is rejected by the MFA challenge at most
Checked(r, u) ==
  IF u.UserStatus = "RESET_REQUIRED"
    THEN FailsWith(r, "PasswordResetRequiredError")
  ELSE IF u.UserStatus = "FORCE_CHANGE_PASSWORD"
    THEN /\ pc'[r] = "done" /\ out'[r].error = ""
         /\ out'[r].ChallengeName = "NEW_PASSWORD_REQUIRED"
  ELSE IF u.Password # req[r].PASSWORD
    THEN FailsWith(r, "InvalidPasswordError")
  ELSE /\ ~FailsWith(r, "PasswordResetRequiredError")
       /\ ~FailsWith(r, "InvalidPasswordError")
       /\ FailsWith(r, "NotAuthorizedError") => MfaIsRequiredOf(r, u)
       /\ ~MfaIsRequiredOf(r, u) => pc'[r] \in {"ia_postauth", "ia_result"}

C28_UserMigrationOnMiss ==
  [][\A r \in Reqs :
       /\ LookedUp(r) =>
            /\ (calls'[r].userMigration = 1) <=>
                 (Found(r) = <<>> /\ "UserMigration" \in functionConfig)
            /\ calls'[r].userMigration = 1 =>
                 /\ pc'[r] = "ia_migrate"
                 /\ Len(calls'[r].userMigrationEvent) = 1
                 /\ calls'[r].userMigrationEvent[1].clientMetadata = ""
                 /\ calls'[r].userMigrationEvent[1].validationData =
                      req[r].ClientMetadata
                 /\ calls'[r].userMigrationEvent[1].username = req[r].USERNAME
            /\ (Found(r) = <<>> /\ "UserMigration" \notin functionConfig) =>
                 FailsWith(r, "NotAuthorizedError")
            /\ Found(r) # <<>> => Checked(r, Found(r)[1])
       /\ (PasswordRequest(r) /\ pc[r] \notin {"ia_lookup", "done"}) =>
            calls'[r].userMigration = calls[r].userMigration
       /\ (MigrationAnswered(r) /\ user'[r] # <<>>) => Checked(r, user'[r][1])
       /\ (MigrationAnswered(r) /\ user'[r] = <<>>) =>
            \E e \in LambdaErrors : FailsWith(r, e)
    ]_vars

\* dave, who is not stored, signs in with ClientMetadata; the trigger got it
\* as validationData and returned a user with another password, and the
\* sign-in was rejected for its password
C28_Witness ==
  \E r \in Reqs :
    /\ PasswordRequest(r) /\ Returned(r)
    /\ req[r].ClientMetadata = "meta"
    /\ calls[r].userMigration = 1
    /\ calls[r].userMigrationEvent[1].validationData = "meta"
    /\ user[r] # <<>> /\ user[r][1].Password # req[r].PASSWORD
    /\ out[r].error = "InvalidPasswordError"


\* C29: getUserByUsername returns the user stored under the key equal to the
\* lookup string whenever there is one, whatever the other users' sub, email
\* and phone_number; on a key miss the first user of the document, in
\* insertion order, whose sub equals the string, or whose email does while
\* email is a username attribute, or whose phone_number does while
\* phone_number is one; nothing when no user matches; and an email or
\* phone_number never resolves a user when its alias is not enabled.
LookupDone(r) == req[r].op = "getUserByUsername" /\ Returned(r)

HasAttribute(u, n, v) ==
  \E k \in 1..Len(u.Attributes) :
    u.Attributes[k].Name = n /\ u.Attributes[k].Value = v

AliasMatch(cfg, u, s) ==
  \/ HasAttribute(u, "sub", s)
  \/ "email" \in cfg.UsernameAttributes /\ HasAttribute(u, "email", s)
  \/ "phone_number" \in cfg.UsernameAttributes /\ HasAttribute(u, "phone_number", s)

C29_GetUserByUsername ==
  \A r \in Reqs :
    LookupDone(r) =>
      LET cfg == pool[r][1]
          us == users[cfg.Id]
          s == req[r].Username
          keyed == {i \in 1..Len(us) : us[i].Username = s}
          hits == {i \in 1..Len(us) : AliasMatch(cfg, us[i], s)}
      IN /\ keyed # {} => \E i \in keyed : user[r] = <<us[i]>>
         /\ (keyed = {} /\ hits # {}) =>
              \E i \in hits : user[r] = <<us[i]>> /\ \A j \in hits : i <= j
         /\ (keyed = {} /\ hits = {}) => user[r] = <<>>
         /\ (/\ user[r] # <<>>
             /\ user[r][1].Username # s
             /\ ~HasAttribute(user[r][1], "sub", s)) =>
              \/ /\ "email" \in cfg.UsernameAttributes
                 /\ HasAttribute(user[r][1], "email", s)
              \/ /\ "phone_number" \in cfg.UsernameAttributes
                 /\ HasAttribute(user[r][1], "phone_number", s)

\* email is a username attribute, ann (whose email is a@x) was inserted before
\* the user named a@x, and the lookup of a@x returned the user named a@x
C29_Witness ==
  \E r \in Reqs :
    /\ LookupDone(r) /\ req[r].Username = "a@x"
    /\ "email" \in pool[r][1].UsernameAttributes
    /\ Len(users["p2"]) >= 2
    /\ users["p2"][1].Username = "ann"
    /\ user[r] # <<>> /\ user[r][1].Username = "a@x"


\* C30: every operation that takes a UserPoolId fails with
\* ResourceNotFoundError when the id resolves to no pool, ListGroups included.
TakesUserPoolId ==
  {"DescribeUserPool", "ListUsers", "ListGroups", "CreateGroup",
   "CreateUserPoolClient", "DeleteUserPool", "GetUserPoolMfaConfig"}

C30_MissingPoolIsResourceNotFound ==
  \A r \in Reqs :
    (Returned(r) /\ req[r].op \in TakesUserPoolId /\ pool[r] = <<>>) =>
       out[r].error = "ResourceNotFoundError"


(* Lambda.invoke: the calls of the function *)

\* the invocation got no answer or an answer that is a failure
FailedInvocation(inv) ==
  inv.answer.rejected \/ inv.answer.StatusCode # 200

\* C31: each Lambda.invoke calls the function at most once: not at all when
\* no function is configured for the trigger (invoke then fails, and enabled
\* is false exactly then) or when the event cannot be built, once otherwise,
\* also when the invocation fails.
C31_FunctionCalledAtMostOnce ==
  \A i \in 1..Len(invocation) :
    LET inv == invocation[i]
        configured == inv.trigger \in functionConfig
        buildable == inv.source \in
          {"PostAuthentication_Authentication", "PostConfirmation_ConfirmSignUp",
           "PreSignUp_SignUp", "UserMigration_Authentication",
           "CustomMessage_SignUp"}
    IN /\ inv.invoked \in {0, 1}
       /\ inv.enabled <=> configured
       /\ (inv.invoked = 0) <=> (~configured \/ ~buildable)
       /\ (~configured \/ ~buildable) => inv.outcome.error = "Error"
       /\ (configured /\ buildable /\ FailedInvocation(inv)) =>
            inv.invoked = 1 /\ inv.outcome.error # ""

\* a configured function was called with a buildable event and the invocation
\* was rejected: it was called once and invoke failed
C31_Witness ==
  \E i \in 1..Len(invocation) :
    /\ invocation[i].trigger \in functionConfig
    /\ invocation[i].source = "PreSignUp_SignUp"
    /\ invocation[i].answer.rejected
    /\ invocation[i].invoked = 1
    /\ invocation[i].outcome.error = "UnexpectedLambdaExceptionError"


\* r is a SignUp whose pool was resolved and which has ended
SignUpEnded(r) == req[r].op = "SignUp" /\ Returned(r) /\ pool[r] # <<>>

\* PreSignUp was invoked for r and did not answer: it failed
PreSignUpFailed(r) ==
  calls[r].preSignUp > 0 /\ calls[r].preSignUpAnswer = <<>>

\* the pool verifies attributes and the caller gave none of them
LacksVerified(r) ==
  /\ pool[r][1].AutoVerifiedAttributes # {}
  /\ \A a \in pool[r][1].AutoVerifiedAttributes :
       \A k \in 1..Len(req[r].UserAttributes) : req[r].UserAttributes[k].Name # a

NothingWritten(r) ==
  /\ calls[r].saveUser = 0
  /\ calls[r].deliver = <<>>
  /\ StoredAs(r) = {}

\* C32: a SignUp that fails before the persist step persists nothing and
\* delivers nothing: when PreSignUp fails it ends in
\* UserLambdaValidationError, and when the pool's AutoVerifiedAttributes name
\* only attributes the user lacks it ends in InvalidParameterError with the
\* message "User has no attribute matching desired auto verified attributes";
\* in both cases no user is saved and Messages.deliver is not called.
C32_SignUpFailsBeforePersisting ==
  \A r \in Reqs :
    SignUpEnded(r) =>
      /\ PreSignUpFailed(r) =>
           out[r].error = "UserLambdaValidationError" /\ NothingWritten(r)
      /\ ( /\ LacksVerified(r) /\ ~PreSignUpFailed(r)
           /\ out[r].error # "UsernameExistsError" ) =>
           /\ out[r].error = "InvalidParameterError"
           /\ out[r].message =
                <<"User has no attribute matching desired auto verified attributes">>
           /\ NothingWritten(r)

\* PreSignUp answered a sign-up without email in a pool that verifies email,
\* and the sign-up ended in InvalidParameterError
C32_Witness ==
  \E r \in Reqs :
    /\ SignUpEnded(r) /\ LacksVerified(r)
    /\ calls[r].preSignUpAnswer # <<>>
    /\ out[r].error = "InvalidParameterError"
    /\ calls[r].saveUser = 0


\* PostConfirmation was invoked for the sign-up r, which then failed
PostConfirmationFailed(r) ==
  SignUpEnded(r) /\ PostConfirmationInvoked(r) /\ out[r].error # ""

FactoryCalled(f, op, id) ==
  f.call # <<>> /\ f.call[1].op = op /\ f.call[1].id = id

\* with the in-memory cache: one live instance per id at most, the cache
\* gives for each id the value last set and nothing after an unset, and a
\* get of a deleted id gives no service
OneStorePerId ==
  factory.kind = "InMemoryCache" =>
    \A id \in PoolIds :
      /\ Cardinality(factory.live[id]) <= 1
      /\ factory.cache[id] = factory.written[id]
      /\ (id \in factory.deleted /\ FactoryCalled(factory, "get", id)) =>
           /\ factory.call[1].value = <<>>
           /\ factory.cache[id] = <<>>

\* with the in-memory cache: a call for one id leaves the cache entries of
\* the other ids, and a delete of a deleted id returns false and leaves
\* files and cache as they are
CallsKeepOtherIds ==
  factory.kind = "InMemoryCache" =>
    \A id \in PoolIds :
      /\ \A other \in PoolIds \ {id} :
           (factory'.call # <<>> /\ factory'.call[1].id = other) =>
             factory'.cache[id] = factory.cache[id]
      /\ (id \in factory.deleted /\ FactoryCalled(factory', "delete", id)) =>
           /\ factory'.call[1].value = FALSE
           /\ factory'.files = factory.files
           /\ factory'.cache = factory.cache

\* C34: with the in-memory cache at most one DataStore instance exists per
\* id: get(id) returns the instance last set for id until unset(id), a set or
\* unset on one id never changes what get returns for another id, and after
\* the factory's delete(id) a get(id) yields no store, so
\* UserPoolServiceFactory.get returns null and UserPoolServiceFactory.delete
\* returns false without deleting anything.
C34_OneDataStorePerId ==
  []OneStorePerId /\ [][CallsKeepOtherIds]_vars

\* a deleted pool was deleted again, which returned false, while the other
\* pool's store is cached
C34_Witness ==
  /\ factory.kind = "InMemoryCache"
  /\ FactoryCalled(factory, "delete", "p1")
  /\ factory.call[1].value = FALSE
  /\ "p1" \in factory.deleted
  /\ factory.cache["p2"] # <<>>
  /\ factory.instances >= 2


\* the response of r carries tokens or the attributes of the user
Discloses(r) ==
  \/ out[r].AccessToken # 0 \/ out[r].IdToken # 0 \/ out[r].RefreshToken # 0
  \/ out[r].userAttributes # <<>>

\* C35: InitiateAuth USER_PASSWORD_AUTH produces a response that carries
\* tokens or the user's attributes (the userAttributes of the
\* NEW_PASSWORD_REQUIRED challenge among them) only when the request's
\* PASSWORD equals the Password of the user.
C35_NothingDisclosedWithoutPassword ==
  \A r \in Reqs :
    (Returned(r) /\ PasswordRequest(r) /\ Discloses(r)) =>
      /\ user[r] # <<>>
      /\ user[r][1].Password = req[r].PASSWORD


\* the sign-in r ended in the failure of the PostAuthentication trigger
PostAuthenticationFailed(r) ==
  /\ Returned(r) /\ PasswordRequest(r)
  /\ calls[r].postAuthentication > 0
  /\ out[r].error \in LambdaErrors

\* token t was there before any request, was returned in a response, or is
\* the token of a request other than r
AccountedFor(r, t) ==
  \/ t \in InitialTokens
  \/ \E i \in issued : i.token = t
  \/ \E other \in Reqs \ {r} : tokens[other] = t

\* C36: when the PostAuthentication trigger fails during InitiateAuth the
\* request fails with the trigger's error and returns no tokens, and from
\* then on the persisted RefreshTokens hold no token of the request: no
\* refresh token is stored for a request that did not return one.
C36_FailedPostAuthenticationStoresNoToken ==
  \A r \in Reqs :
    PostAuthenticationFailed(r) =>
      /\ out[r].AccessToken = 0 /\ out[r].IdToken = 0 /\ out[r].RefreshToken = 0
      /\ \A p \in PoolIds : \A k \in 1..Len(users[p]) :
           \A j \in 1..Len(users[p][k].RefreshTokens) :
             AccountedFor(r, users[p][k].RefreshTokens[j])


\* the errors and the challenge an InitiateAuth request is refused with
RefusedWith(o) ==
  \/ o.error \in {"NotAuthorizedError", "PasswordResetRequiredError",
                  "InvalidPasswordError", "InvalidParameterError",
                  "UnsupportedError"}
  \/ o.error = "" /\ o.ChallengeName = "NEW_PASSWORD_REQUIRED"

\* the step ends the InitiateAuth request r
EndsInitiateAuth(r) ==
  pc[r] # "done" /\ pc'[r] = "done" /\ req'[r].op = "InitiateAuth"

\* a user record changes only in a save the handler made or in the
\* UserMigration trigger's
SavesAreCalls ==
  users' # users =>
    \E r \in Reqs : \/ calls'[r].saveUser > calls[r].saveUser
                    \/ pc[r] = "ia_migrate" /\ calls[r].userMigration > 0

\* an InitiateAuth request refused without the UserMigration trigger made
\* no save, delivered nothing, asked for no tokens, invoked no
\* PostAuthentication and leaves no challenge running; its last step leaves
\* the users as they are
RefusalIsFrame ==
  \A r \in Reqs :
    (EndsInitiateAuth(r) /\ RefusedWith(out'[r]) /\ calls'[r].userMigration = 0) =>
      /\ calls'[r].saveUser = 0
      /\ calls'[r].deliver = <<>>
      /\ calls'[r].generate = 0
      /\ calls'[r].postAuthentication = 0
      /\ vp'[r] = "none" /\ tokens'[r] = 0 /\ code'[r] = ""
      /\ users' = users /\ nextToken' = nextToken

\* C37: an InitiateAuth request that ends in NotAuthorizedError,
\* PasswordResetRequiredError, InvalidPasswordError, InvalidParameterError or
\* UnsupportedError, or in the NEW_PASSWORD_REQUIRED challenge, and in which
\* the UserMigration trigger was not invoked, leaves every user record of the
\* pool unchanged, delivers no message and invokes neither the token
\* generator nor the PostAuthentication trigger.
C37_RefusedInitiateAuthChangesNothing ==
  [][SavesAreCalls /\ RefusalIsFrame]_vars

\* a sign-in was refused for its password after the lookup, in a deployment
\* whose PostAuthentication trigger is configured
C37_Witness ==
  /\ Returned(1) /\ PasswordRequest(1)
  /\ out[1].error = "InvalidPasswordError"
  /\ user[1] # <<>>
  /\ calls[1] = NoCalls
  /\ "PostAuthentication" \in functionConfig


\* a and b have served SignUp requests of one Username in one pool
SameSignUp(a, b) ==
  /\ a # b /\ Returned(a) /\ Returned(b)
  /\ req[a].op = "SignUp" /\ req[b].op = "SignUp"
  /\ pool[a] # <<>> /\ pool[b] = pool[a]
  /\ req[a].Username = req[b].Username

\* C38: of two SignUp requests with the same Username that run concurrently
\* in one pool at most one succeeds (the other fails, with
\* UsernameExistsError unless something else refused it first), and the user
\* that remains stored has the sub that was returned to the successful
\* caller.
C38_ConcurrentSignUpOneWinner ==
  \A a \in Reqs, b \in Reqs :
    (SameSignUp(a, b) /\ out[a].error = "") =>
      /\ out[b].error # ""
      /\ \A i \in StoredAs(a) :
           attributeValue("sub", users[pool[a][1].Id][i].Attributes) = out[a].UserSub


\* the fields of a stored user that AdminDeleteUserAttributes is to leave
UntouchedFields ==
  {"Username", "Password", "UserStatus", "Enabled", "MFAOptions",
   "ConfirmationCode", "MFACode", "AttributeVerificationCode",
   "RefreshTokens", "UserCreateDate"}

\* list `after` is list `before` without the attributes named, in order
IsWithout(after, before, names) ==
  LET kept == {i \in 1..Len(before) : before[i].Name \notin names}
  IN /\ Len(after) = Cardinality(kept)
     /\ \A i \in kept :
          after[Cardinality({k \in kept : k <= i})] = before[i]

\* the step in which AdminDeleteUserAttributes saves: one user, the one
\* looked up, loses the attributes named and gets the clock's date, and
\* nothing else changes
DeleteAttributesEffect ==
  \A r \in Reqs :
    (pc[r] = "adua_lookup" /\ pc'[r] = "adua_saving") =>
      LET p == pool[r][1].Id
      IN /\ \A q \in PoolIds \ {p} : users'[q] = users[q]
         /\ Len(users'[p]) = Len(users[p])
         /\ \E i \in 1..Len(users[p]) :
              /\ users[p][i] = user'[r][1]
              /\ \A k \in 1..Len(users[p]) : k # i => users'[p][k] = users[p][k]
              /\ IsWithout(users'[p][i].Attributes, users[p][i].Attributes,
                           req[r].UserAttributeNames)
              /\ users'[p][i].UserLastModifiedDate = now
              /\ \A f \in UntouchedFields : users'[p][i][f] = users[p][i][f]

\* slot 1 and then slot 2 have served the same AdminDeleteUserAttributes
\* request, both with success
DeletedTwice ==
  /\ Returned(1) /\ Returned(2)
  /\ req[1].op = "AdminDeleteUserAttributes" /\ req[2] = req[1]
  /\ out[1].error = "" /\ out[2].error = ""

\* the second of two equal requests leaves the user as the first left it,
\* but for UserLastModifiedDate
SecondDeleteChangesDateOnly ==
  DeletedTwice =>
    \E i \in 1..Len(users[pool[2][1].Id]) :
      LET stored == users[pool[2][1].Id][i]
      IN /\ stored.Username = user[2][1].Username
         /\ stored.Attributes = user[2][1].Attributes
         /\ \A f \in UntouchedFields : stored[f] = user[2][1][f]
         /\ \A k \in 1..Len(stored.Attributes) :
              stored.Attributes[k].Name \notin req[1].UserAttributeNames

\* C39: a successful AdminDeleteUserAttributes removes from the user exactly
\* the attributes whose Name is in UserAttributeNames, keeps all other
\* attributes in their order, sets UserLastModifiedDate to the clock's now
\* and leaves Username, Password, UserStatus, Enabled, MFAOptions, codes,
\* RefreshTokens and UserCreateDate unchanged, as well as every other user of
\* the pool; applying it a second time with the same names changes nothing
\* but UserLastModifiedDate.
C39_DeleteAttributesFrame ==
  []SecondDeleteChangesDateOnly /\ [][DeleteAttributesEffect]_vars

\* alice lost her email to the first request at time 0 and kept her sub; the
\* same request made again at time 1 changed her UserLastModifiedDate only
C39_Witness ==
  /\ DeletedTwice
  /\ req[1].UserAttributeNames = {"email"}
  /\ attributesInclude("email", user[1][1].Attributes)
  /\ user[2][1].UserLastModifiedDate = 0
  /\ \E i \in 1..Len(users["p1"]) :
       /\ users["p1"][i].Username = "alice"
       /\ users["p1"][i].Attributes = <<attribute("sub", "s-alice")>>
       /\ users["p1"][i].UserLastModifiedDate = 1
       /\ users["p1"][i].RefreshTokens = <<1>>


\* what a response may tell of a stored user
PublicOf(u) ==
  [Username |-> u.Username, UserCreateDate |-> u.UserCreateDate,
   UserLastModifiedDate |-> u.UserLastModifiedDate, Enabled |-> u.Enabled,
   UserStatus |-> u.UserStatus, Attributes |-> u.Attributes]

SecretFields ==
  {"Password", "ConfirmationCode", "MFACode", "AttributeVerificationCode",
   "RefreshTokens"}

\* r has served a request of the operation op, whose pool there is
ServedBy(r, op) == Returned(r) /\ req[r].op = op /\ pool[r] # <<>>

\* ListUsers returns, of every stored user in order, the public fields and
\* no other
ListUsersIsPublic ==
  \A r \in Reqs :
    ServedBy(r, "ListUsers") =>
      LET stored == users[pool[r][1].Id]
      IN /\ out[r].error = ""
         /\ Len(out[r].Users) = Len(stored)
         /\ \A i \in 1..Len(stored) :
              /\ out[r].Users[i] = PublicOf(stored[i])
              /\ DOMAIN out[r].Users[i] \cap SecretFields = {}

\* AdminGetUser returns the public fields and the MFAOptions of one stored
\* user the Username resolves to, and fails with UserNotFoundError when it
\* resolves to none
AdminGetUserIsPublic ==
  \A r \in Reqs :
    ServedBy(r, "AdminGetUser") =>
      IF Resolvable(pool[r][1], req[r].Username)
        THEN /\ out[r].error = "" /\ out[r].User # <<>>
             /\ DOMAIN out[r].User[1] \cap SecretFields = {}
             /\ DOMAIN out[r].User[1] =
                  {"Enabled", "MFAOptions", "PreferredMfaSetting",
                   "UserAttributes", "UserCreateDate", "UserLastModifiedDate",
                   "UserMFASettingList", "Username", "UserStatus"}
             /\ out[r].User[1].PreferredMfaSetting = ""
             /\ out[r].User[1].UserMFASettingList = ""
             /\ \E i \in 1..Len(users[pool[r][1].Id]) :
                  LET u == users[pool[r][1].Id][i]
                  IN /\ out[r].User[1].Username = u.Username
                     /\ out[r].User[1].UserAttributes = u.Attributes
                     /\ out[r].User[1].MFAOptions = u.MFAOptions
                     /\ out[r].User[1].Enabled = u.Enabled
                     /\ out[r].User[1].UserStatus = u.UserStatus
                     /\ out[r].User[1].UserCreateDate = u.UserCreateDate
                     /\ out[r].User[1].UserLastModifiedDate = u.UserLastModifiedDate
        ELSE out[r].error = "UserNotFoundError" /\ out[r].User = <<>>

\* a step that serves ListUsers or AdminGetUser leaves what is stored
ReadsChangeNothing ==
  \A r \in Reqs :
    (pc[r] = "idle" /\ pc'[r] = "done"
       /\ req'[r].op \in {"ListUsers", "AdminGetUser"}) =>
      /\ users' = users /\ config' = config /\ clients' = clients
      /\ groups' = groups /\ now' = now

\* C40: ListUsers and AdminGetUser never return a user's Password,
\* ConfirmationCode, MFACode, AttributeVerificationCode or RefreshTokens,
\* whatever the stored user holds, and neither changes stored state;
\* AdminGetUser for a missing user fails with UserNotFoundError.
C40_ReadsReturnNoSecret ==
  [](ListUsersIsPublic /\ AdminGetUserIsPublic) /\ [][ReadsChangeNothing]_vars

\* AdminGetUser returned alice, found by her email, while the stored alice
\* holds all three codes, a password and a refresh token
C40_Witness ==
  /\ ServedBy(1, "AdminGetUser") /\ req[1].Username = "a@x"
  /\ out[1].User # <<>> /\ out[1].User[1].Username = "alice"
  /\ users["p1"][1].ConfirmationCode = "1111"
  /\ users["p1"][1].MFACode = "2222"
  /\ users["p1"][1].AttributeVerificationCode = "1111"
  /\ users["p1"][1].Password = "pw"
  /\ users["p1"][1].RefreshTokens = <<1>>

====
